---------------------------- MODULE Spec2Model ----------------------------
(***************************************************************************)
(* Model of the PYTHIA / Ultimate Investigator bot core:                   *)
(*   - the truth-bullet (clue) registry and its SQL matching queries       *)
(*     (src/common/models.py),                                             *)
(*   - the guild configuration resolver (src/common/models.py),            *)
(*   - the gacha currency ledger (src/exts/gacha_management.py).           *)
(*                                                                         *)
(* The module holds several specifications over one set of variables; each *)
(* specification moves its own group of variables and leaves the other     *)
(* groups parked at a fixed value.                                         *)
(*   SpecFind    - the matching queries applied to a drawn registry/query  *)
(*   SpecClue    - concurrent discovery and edit handlers on the registry  *)
(*   SpecBalance - concurrent currency commands on the Balance rows        *)
(*   SpecConfig  - concurrent configuration resolver calls                 *)
(*   SpecLedger  - reset and give-all on the Balance rows                  *)
(*   SpecItems   - concurrent item commands on the item catalog            *)
(*   SpecStore   - resolver calls, saves, guild-join and -left on tables   *)
(*   SpecExact   - validate and find_exact applied to a drawn registry     *)
(*   SpecEscape  - escape_ilike applied to every short string              *)
(*   SpecTemplates - one submission of the finder-names modal              *)
(*   SpecAliases - the alias set of a clue loaded, saved and reloaded      *)
(*   SpecSettings - concurrent clue-settings commands on one guild         *)
(*   SpecEdit    - item-edit submissions carrying any item id              *)
(*   SpecCurrency - give, remove, reset and give-all with their checks     *)
(***************************************************************************)
EXTENDS Integers, Sequences, FiniteSets, TLC

VARIABLES
    \* ---- SpecFind: one query against one registry
    q_reg,      \* the thiabulletconfig table the query runs against
    q_chan,     \* $1, the channel id of the query
    q_text,     \* $2, the message content
    q_res,      \* the row query_first returned (None when no row matched)
    q_valid,    \* what TruthBullet.validate returned
    q_esc,      \* what escape_ilike returned
    q_pc        \* "ask" before the query ran, "answered" after

findVars == <<q_reg, q_chan, q_text, q_res, q_valid, q_esc, q_pc>>

VARIABLES
    \* ---- SpecClue: handlers running concurrently on the registry
    bullets,    \* the thiabulletconfig table: bullet id -> row
    hpc,        \* per handler: "idle", "matched" (a message handler holding
                \* the row find returned), "editing" (an edit handler
                \* holding the row it read)
    hcopy       \* per handler: its in-memory TruthBullet (None when idle)

clueVars == <<bullets, hpc, hcopy>>

VARIABLES
    \* ---- SpecBalance: currency commands of one guild running concurrently
    players,      \* the gacha player table: user -> Balance row
    players0,     \* the table as it was before any command ran
    player_role,  \* the guild configuration's player_role (NULL when unset)
    cmd           \* per command handler: its state, inputs and reply

balVars == <<players, players0, player_role, cmd>>

VARIABLES
    \* ---- SpecConfig: configuration resolver calls running concurrently
    root,       \* the guild configuration table: guild -> root row
    subcfg,     \* the names / bullets / gacha tables: kind -> guild -> row
    call        \* per resolver call: its arguments, position and result

cfgVars == <<root, subcfg, call>>

VARIABLES
    \* ---- SpecItems: item commands and modal submissions running concurrently
    items,      \* the gacha item table: item id -> row
    next_id,    \* the id the table's autoincrement hands out next
    icmd        \* per handler: its inputs, position and outcome

itemVars == <<items, next_id, icmd>>

VARIABLES
    \* ---- SpecTemplates: one submission of the bullet_finders modal
    names_row,  \* the three finder templates of the guild's names row
    kwargs,     \* ctx.kwargs: the three templates submitted
    tpc         \* "open", "fetched" (fetch_config returned), "saved",
                \* "raised" (BadArgument)

tmplVars == <<names_row, kwargs, tpc>>

VARIABLES
    \* ---- SpecSettings: clue-settings commands running concurrently
    bulletconfig,   \* the clue-settings table: guild -> row
    cfg_player_role,\* the player_role column of the root record: guild -> role
    msg_enabled_bullets_guilds, \* bot.msg_enabled_bullets_guilds
    setter          \* per handler: its command, argument, record and position

setVars == <<bulletconfig, cfg_player_role, msg_enabled_bullets_guilds, setter>>

VARIABLES
    \* ---- SpecAliases: a clue's aliases loaded and serialized
    a_in,       \* the list of aliases handed to the model (the stored column)
    a_set,      \* TruthBullet.aliases after validation
    a_out,      \* the list model_dump() gives for aliases
    a_saved,    \* the aliases column after save() wrote that list
    a_pc        \* "stored", "loaded", "dumped", "reloaded", "redumped"

aliasVars == <<a_in, a_set, a_out, a_saved, a_pc>>

vars == <<findVars, clueVars, balVars, cfgVars, itemVars, tmplVars, setVars,
          aliasVars>>

\* what the actions of each specification leave alone
notFind == <<clueVars, balVars, cfgVars, itemVars, tmplVars,
            setVars, aliasVars>>
notClue == <<findVars, balVars, cfgVars, itemVars, tmplVars,
            setVars, aliasVars>>
notBal == <<findVars, clueVars, cfgVars, itemVars, tmplVars,
            setVars, aliasVars>>
notCfg == <<findVars, clueVars, balVars, itemVars, tmplVars,
            setVars, aliasVars>>
notItem == <<findVars, clueVars, balVars, cfgVars, tmplVars,
            setVars, aliasVars>>
notTmpl == <<findVars, clueVars, balVars, cfgVars, itemVars, setVars, aliasVars>>
notSet == <<findVars, clueVars, balVars, cfgVars, itemVars, tmplVars, aliasVars>>
notAlias == <<findVars, clueVars, balVars, cfgVars, itemVars, tmplVars, setVars>>

-----------------------------------------------------------------------------
(* Bounds *)

\* longest trigger drawn for a clue
MaxTrigLen == 2
\* longest message content drawn
MaxTextLen == 2
\* clue rows the registry can hold
MaxBullets == 1
\* handlers (message events, edit submissions) in flight at once
NumProcs == 2
\* currency commands in flight at once
NumCmds == 2
\* largest amount a currency command is given
MaxAmount == 2
\* configuration resolver calls in flight at once
NumCalls == 2
\* item ids the table's autoincrement can hand out
MaxItems == 2
\* item commands and modal submissions in flight at once
NumICmds == 2
\* handlers of configuration events in flight at once
NumHandlers == 1
\* longest string handed to escape_ilike
MaxEscLen == 3
\* longest finder template submitted (in symbols)
MaxTemplateLen == 6
\* longest list of aliases loaded
MaxAliases == 3
\* clue-settings commands in flight at once
NumSetters == 2

-----------------------------------------------------------------------------
(* Strings are sequences of one-character strings.  The alphabet holds a   *)
(* letter in both cases and the three characters LIKE treats specially.    *)

Alphabet == {"a", "A", "%", "_", "\\"}

Strings(lo, hi) == UNION {[1..k -> Alphabet] : k \in lo..hi}

\* the aliases drawn for a clue: every one-character string
AliasPool == {<<c>> : c \in Alphabet}

\* SQL NULL / Python None for a scalar column
NULL == "NULL"

Channels == {"c1", "c2"}
Users == {"u1", "u2"}

\* case folding as ILIKE and UPPER() apply it
Fold(c) == IF c = "A" THEN "a" ELSE c

FoldStr(s) == [i \in 1..Len(s) |-> Fold(s[i])]

-----------------------------------------------------------------------------
(* src/common/models.py: generate_regexp, the ILIKE predicate and the      *)
(* FIND_TRUTH_BULLET_STR query.                                            *)

\* regexp_replace(attribute, '([\%_])', '\\\1', 'g'): every % and _ gets a
\* backslash in front; every other character, the backslash included, is
\* copied as it is.
RECURSIVE generate_regexp(_)
generate_regexp(attribute) ==
    IF attribute = <<>> THEN <<>>
    ELSE IF Head(attribute) \in {"%", "_"}
         THEN <<"\\", Head(attribute)>> \o generate_regexp(Tail(attribute))
         ELSE <<Head(attribute)>> \o generate_regexp(Tail(attribute))

\* PostgreSQL's  string ILIKE pattern  with the default escape character \ :
\* % matches any run of characters, _ any one character, \x the character x,
\* anything else itself up to case.  (A pattern ending in a lone backslash is
\* an error in PostgreSQL; the queries below always end the pattern with %.)
RECURSIVE ILIKE(_, _)
ILIKE(string, pattern) ==
    IF pattern = <<>> THEN string = <<>>
    ELSE IF Head(pattern) = "\\"
    THEN /\ Len(pattern) >= 2
         /\ string # <<>>
         /\ Fold(Head(string)) = Fold(pattern[2])
         /\ ILIKE(Tail(string), Tail(Tail(pattern)))
    ELSE IF Head(pattern) = "%"
    THEN \E k \in 0..Len(string) :
            ILIKE(SubSeq(string, k + 1, Len(string)), Tail(pattern))
    ELSE IF Head(pattern) = "_"
    THEN string # <<>> /\ ILIKE(Tail(string), Tail(pattern))
    ELSE /\ string # <<>>
         /\ Fold(Head(string)) = Fold(Head(pattern))
         /\ ILIKE(Tail(string), Tail(pattern))

\* $2 ILIKE CONCAT('%', regexp_replace(attribute, ...), '%')
ContentMatches(content, attribute) ==
    ILIKE(content, <<"%">> \o generate_regexp(attribute) \o <<"%">>)

\* query_first found no row
None ==
    [present |-> FALSE, id |-> 0, channel_id |-> NULL, trigger |-> <<>>,
     aliases |-> {}, description |-> NULL, found |-> FALSE, finder |-> NULL]

\* FIND_TRUTH_BULLET_STR with the  found = false  condition left out
FIND_TRUTH_BULLET_STR_AnyFound(table, channel_id, content) ==
    {id \in DOMAIN table :
        /\ table[id].present
        /\ table[id].channel_id = channel_id
        /\ \/ ContentMatches(content, table[id].trigger)
           \/ \E alias \in table[id].aliases : ContentMatches(content, alias)}

\* The rows FIND_TRUTH_BULLET_STR selects from `table` for ($1, $2).
FIND_TRUTH_BULLET_STR(table, channel_id, content) ==
    {id \in DOMAIN table :
        /\ table[id].present
        /\ table[id].channel_id = channel_id
        /\ table[id].found = FALSE
        /\ \/ ContentMatches(content, table[id].trigger)
           \/ \E alias \in table[id].aliases : ContentMatches(content, alias)}

\* TruthBullet.find: query_first returns the first selected row, in an order
\* the query does not fix, or None.
find(table, channel_id, content) ==
    LET rows == FIND_TRUTH_BULLET_STR(table, channel_id, content)
    IN  IF rows = {} THEN {None} ELSE {table[id] : id \in rows}

\* FIND_TRUTH_BULLET_EXACT_STR comparing without UPPER()
FIND_TRUTH_BULLET_EXACT_STR_CaseSensitive(table, channel_id, content) ==
    {id \in DOMAIN table :
        /\ table[id].present
        /\ table[id].channel_id = channel_id
        /\ \/ content = table[id].trigger
           \/ \E alias \in table[id].aliases : content = alias}

\* The rows FIND_TRUTH_BULLET_EXACT_STR selects: channel_id = $1 and
\* UPPER($2) = UPPER(trigger) or UPPER($2) = UPPER(alias) for an alias.
FIND_TRUTH_BULLET_EXACT_STR(table, channel_id, content) ==
    {id \in DOMAIN table :
        /\ table[id].present
        /\ table[id].channel_id = channel_id
        /\ \/ FoldStr(content) = FoldStr(table[id].trigger)
           \/ \E alias \in table[id].aliases :
                 FoldStr(content) = FoldStr(alias)}

\* TruthBullet.find_exact: query_first gives the first selected row or None
find_exact(table, channel_id, content) ==
    LET rows == FIND_TRUTH_BULLET_EXACT_STR(table, channel_id, content)
    IN  IF rows = {} THEN {None} ELSE {table[id] : id \in rows}

\* VALIDATE_TRUTH_BULLET_STR with a  found = false  condition added
VALIDATE_TRUTH_BULLET_STR_Unfound(table, channel_id, trigger) ==
    {id \in DOMAIN table :
        /\ table[id].present
        /\ table[id].channel_id = channel_id
        /\ table[id].found = FALSE
        /\ \/ FoldStr(trigger) = FoldStr(table[id].trigger)
           \/ \E alias \in table[id].aliases :
                 FoldStr(trigger) = FoldStr(alias)}

\* The rows VALIDATE_TRUTH_BULLET_STR selects (SELECT 1 for each): the same
\* WHERE clause as FIND_TRUTH_BULLET_EXACT_STR, written out in the source.
VALIDATE_TRUTH_BULLET_STR(table, channel_id, trigger) ==
    {id \in DOMAIN table :
        /\ table[id].present
        /\ table[id].channel_id = channel_id
        /\ \/ FoldStr(trigger) = FoldStr(table[id].trigger)
           \/ \E alias \in table[id].aliases :
                 FoldStr(trigger) = FoldStr(alias)}

\* TruthBullet.validate: query_first(...) is not None
validate(table, channel_id, trigger) ==
    VALIDATE_TRUTH_BULLET_STR(table, channel_id, trigger) # {}

-----------------------------------------------------------------------------
(* SpecFind: a registry of one clue and (optionally) a second clue with    *)
(* the same trigger and aliases, a channel and a message content are       *)
(* drawn; the find query is applied to them.                               *)

DrawnClue ==
    {[present |-> TRUE, id |-> 1, channel_id |-> ch, trigger |-> t,
      aliases |-> al, description |-> "d", found |-> f,
      finder |-> IF f THEN "u1" ELSE NULL] :
        ch \in Channels, t \in Strings(1, MaxTrigLen),
        al \in {{}} \cup {{a} : a \in AliasPool},
        f \in BOOLEAN}

SecondClue(c) ==
    {None} \cup
    {[c EXCEPT !.id = 2, !.channel_id = ch, !.found = f,
               !.finder = IF f THEN "u2" ELSE NULL] :
        ch \in Channels, f \in BOOLEAN}

ParkFind ==
    /\ q_reg = <<>> /\ q_chan = NULL /\ q_text = <<>>
    /\ q_res = None /\ q_valid = FALSE /\ q_esc = <<>> /\ q_pc = "parked"

ParkClue ==
    /\ bullets = <<>> /\ hpc = <<>> /\ hcopy = <<>>

ParkBal ==
    /\ players = <<>> /\ players0 = <<>> /\ player_role = NULL /\ cmd = <<>>

ParkCfg ==
    /\ root = <<>> /\ subcfg = <<>> /\ call = <<>>

ParkItem ==
    /\ items = <<>> /\ next_id = 0 /\ icmd = <<>>

ParkTmpl ==
    /\ names_row = <<>> /\ kwargs = <<>> /\ tpc = "parked"

ParkSet ==
    /\ bulletconfig = <<>> /\ cfg_player_role = <<>>
    /\ msg_enabled_bullets_guilds = {} /\ setter = <<>>

ParkAlias ==
    /\ a_in = <<>> /\ a_set = {} /\ a_out = <<>> /\ a_saved = <<>>
    /\ a_pc = "parked"

InitFind ==
    /\ ParkClue /\ ParkBal /\ ParkCfg /\ ParkItem /\ ParkTmpl
    /\ ParkSet /\ ParkAlias
    /\ \E c \in DrawnClue : \E d \in SecondClue(c) :
          q_reg = (1 :> c) @@ (2 :> d)
    /\ q_chan \in Channels
    /\ q_text \in Strings(0, MaxTextLen)
    /\ q_res = None /\ q_valid = FALSE /\ q_esc = <<>>
    /\ q_pc = "ask"

RunFind ==
    /\ q_pc = "ask"
    /\ q_res' \in find(q_reg, q_chan, q_text)
    /\ q_pc' = "answered"
    /\ UNCHANGED <<q_reg, q_chan, q_text, q_valid, q_esc>>
    /\ UNCHANGED notFind

NextFind == RunFind

SpecFind == InitFind /\ [][NextFind]_vars

-----------------------------------------------------------------------------
(* Claims about find, checked under SpecFind.                              *)

\* sub occurs in text as a case-insensitive substring
Contains(text, sub) ==
    \E i \in 0..(Len(text) - Len(sub)) :
        FoldStr(SubSeq(text, i + 1, i + Len(sub))) = FoldStr(sub)

\* the trigger and the aliases of a clue
Phrases(c) == {c.trigger} \cup c.aliases

\* the unfound clues of the queried channel
UnfoundInChannel ==
    {id \in DOMAIN q_reg :
        q_reg[id].present /\ q_reg[id].channel_id = q_chan /\ ~q_reg[id].found}

\* the unfound clues of the queried channel that the content mentions
Mentioned ==
    {id \in UnfoundInChannel : \E p \in Phrases(q_reg[id]) : Contains(q_text, p)}

\* C5: find never returns a clue whose stored found flag is true, nor a clue
\* of a channel other than the one queried.
C5_FindOnlyUnfoundInChannel ==
    (q_pc = "answered" /\ q_res.present) =>
        /\ q_res = q_reg[q_res.id]
        /\ q_reg[q_res.id].found = FALSE
        /\ q_res.channel_id = q_chan

\* C5 witness: find returned a clue although the registry also holds a found
\* clue and a clue of another channel with the same matching trigger.
C5_Witness ==
    /\ q_pc = "answered" /\ q_res.present
    /\ \E id \in DOMAIN q_reg :
          /\ q_reg[id].present /\ id # q_res.id
          /\ (q_reg[id].found \/ q_reg[id].channel_id # q_chan)
          /\ Contains(q_text, q_reg[id].trigger)

\* C8: find returns a clue (the clue itself when it is the only candidate)
\* when the content contains the trigger or an alias of an unfound clue of
\* the channel as a case-insensitive substring, and returns none when the
\* content contains no trigger and no alias of any unfound clue of the channel.
C8_FindIffMentioned ==
    q_pc = "answered" =>
        /\ Mentioned # {} => q_res.present
        /\ (\E id \in Mentioned : Mentioned = {id}) =>
               (q_res.present /\ Mentioned = {q_res.id})
        /\ Mentioned = {} => ~q_res.present

\* C9: % and _ in a trigger or alias are matched literally: a clue all of
\* whose phrases contain % or _ is returned only for a content in which one
\* of its phrases occurs character for character (up to case).
HasWildcard(p) == \E i \in 1..Len(p) : p[i] \in {"%", "_"}

C9_WildcardsLiteral ==
    (q_pc = "answered" /\ q_res.present
        /\ \A p \in Phrases(q_res) : HasWildcard(p)) =>
        \E p \in Phrases(q_res) : Contains(q_text, p)

-----------------------------------------------------------------------------
(* SpecClue: the registry under concurrent handlers.  A handler runs       *)
(* without interruption between two awaits, so each database call with the *)
(* in-memory work before it is one step.                                   *)

BulletIds == 1..MaxBullets
Procs == 1..NumProcs

\* escape_ilike with the backslash in the character class as well
RECURSIVE escape_ilike_Backslash(_)
escape_ilike_Backslash(value) ==
    IF value = <<>> THEN <<>>
    ELSE IF Head(value) \in {"%", "_", "\\"}
         THEN <<"\\", Head(value)>> \o escape_ilike_Backslash(Tail(value))
         ELSE <<Head(value)>> \o escape_ilike_Backslash(Tail(value))

\* escape_ilike: ILIKE_ESCAPE.sub(r"\\\1", value) with ILIKE_ESCAPE = ([\%_])
RECURSIVE escape_ilike(_)
escape_ilike(value) ==
    IF value = <<>> THEN <<>>
    ELSE IF Head(value) \in {"%", "_"}
         THEN <<"\\", Head(value)>> \o escape_ilike(Tail(value))
         ELSE <<Head(value)>> \o escape_ilike(Tail(value))

\* TruthBullet.find_possible_bullet: find_first where channel_id matches and
\* trigger equals escape_ilike(trigger) in insensitive mode (an ILIKE).
find_possible_bullet(table, channel_id, trigger) ==
    LET rows == {id \in DOMAIN table :
                    /\ table[id].present
                    /\ table[id].channel_id = channel_id
                    /\ ILIKE(table[id].trigger, escape_ilike(trigger))}
    IN  IF rows = {} THEN {None} ELSE {table[id] : id \in rows}

\* TruthBullet.save written so that it leaves the finder column out
save_WithoutFinder(table, self) ==
    IF self.id \in DOMAIN table /\ table[self.id].present
    THEN [table EXCEPT ![self.id] = [self EXCEPT !.finder = table[self.id].finder]]
    ELSE table

\* TruthBullet.save: update(where={"id": self.id}, data=self.model_dump()),
\* every column of the row is overwritten with the in-memory copy.  (On a
\* missing row the update raises and nothing is written.)
save(table, self) ==
    IF self.id \in DOMAIN table /\ table[self.id].present
    THEN [table EXCEPT ![self.id] = self]
    ELSE table

\* the phrases clues are created with and the contents messages carry
SeedTriggers == {<<"a">>}
Contents == {<<"A">>, <<"%">>}

InitClue ==
    /\ ParkFind /\ ParkBal /\ ParkCfg /\ ParkItem /\ ParkTmpl
    /\ ParkSet /\ ParkAlias
    /\ bullets = [b \in BulletIds |-> None]
    /\ hpc = [p \in Procs |-> "idle"]
    /\ hcopy = [p \in Procs |-> None]

\* An administrator adds a clue: a new row, not found, no finder.
CreateBullet(b, ch, trig) ==
    /\ ~bullets[b].present
    /\ bullets' = [bullets EXCEPT ![b] =
          [present |-> TRUE, id |-> b, channel_id |-> ch, trigger |-> trig,
           aliases |-> {}, description |-> "d", found |-> FALSE,
           finder |-> NULL]]
    /\ UNCHANGED <<hpc, hcopy>>
    /\ UNCHANGED notClue

\* A message arrives in channel ch: the handler looks for a clue with find.
MessageFind(p, ch, content) ==
    /\ hpc[p] = "idle"
    /\ \E r \in find(bullets, ch, content) :
          /\ hcopy' = [hcopy EXCEPT ![p] = r]
          /\ hpc' = [hpc EXCEPT ![p] = IF r.present THEN "matched" ELSE "idle"]
    /\ UNCHANGED bullets
    /\ UNCHANGED notClue

\* The handler commits the discovery for the message's author u:
\* found = True, finder = u on its copy, then save().
CommitDiscovery(p, u) ==
    /\ hpc[p] = "matched"
    /\ bullets' = save(bullets, [hcopy[p] EXCEPT !.found = TRUE, !.finder = u])
    /\ hpc' = [hpc EXCEPT ![p] = "idle"]
    /\ hcopy' = [hcopy EXCEPT ![p] = None]
    /\ UNCHANGED notClue

\* An edit handler reads the clue it is to edit by its trigger.
EditRead(p, ch, trig) ==
    /\ hpc[p] = "idle"
    /\ \E r \in find_possible_bullet(bullets, ch, trig) :
          /\ hcopy' = [hcopy EXCEPT ![p] = r]
          /\ hpc' = [hpc EXCEPT ![p] = IF r.present THEN "editing" ELSE "idle"]
    /\ UNCHANGED bullets
    /\ UNCHANGED notClue

\* The edit handler changes the description on its copy, then save().
EditSave(p) ==
    /\ hpc[p] = "editing"
    /\ bullets' = save(bullets, [hcopy[p] EXCEPT !.description = "e"])
    /\ hpc' = [hpc EXCEPT ![p] = "idle"]
    /\ hcopy' = [hcopy EXCEPT ![p] = None]
    /\ UNCHANGED notClue

NextClue ==
    \/ \E b \in BulletIds, ch \in Channels, trig \in SeedTriggers :
          CreateBullet(b, ch, trig)
    \/ \E p \in Procs, ch \in Channels, content \in Contents :
          MessageFind(p, ch, content)
    \/ \E p \in Procs, u \in Users : CommitDiscovery(p, u)
    \/ \E p \in Procs, ch \in Channels, trig \in SeedTriggers :
          EditRead(p, ch, trig)
    \/ \E p \in Procs : EditSave(p)

SpecClue == InitClue /\ [][NextClue]_vars

-----------------------------------------------------------------------------
(* Claims about discovery, checked under SpecClue.                         *)

\* a step in which handler p commits a discovery
IsCommit(p) == hpc[p] = "matched" /\ hpc'[p] = "idle"

\* C1: discovery is write-once: a discovery commit on a clue whose stored
\* found flag is already true is rejected or changes nothing, so the stored
\* finder stays the one the first commit wrote.
C1_FinderWriteOnce ==
    [][\A p \in Procs :
          (IsCommit(p) /\ bullets[hcopy[p].id].found) =>
              bullets'[hcopy[p].id].finder = bullets[hcopy[p].id].finder]_vars

\* C6: in every stored state of every clue, finder is non-null if and only
\* if found is true.
C6_FinderIffFound ==
    \A b \in BulletIds :
        bullets[b].present => ((bullets[b].finder # NULL) <=> bullets[b].found)

\* C6 witness: a clue that a discovery commit marked found and an edit
\* handler's full-record save has rewritten.
C6_Witness ==
    \E b \in BulletIds :
        /\ bullets[b].present /\ bullets[b].found
        /\ bullets[b].finder \in Users
        /\ bullets[b].description = "e"

\* C7: once a clue's stored found flag is true it is true in every later
\* state.
C7_FoundNeverReverts ==
    [][\A b \in BulletIds : bullets[b].found => bullets'[b].found]_vars

-----------------------------------------------------------------------------
(* SpecExact: the registry, channel and text of SpecFind are drawn, and    *)
(* TruthBullet.validate and TruthBullet.find_exact are applied to them,    *)
(* one after the other.                                                    *)

RunValidate ==
    /\ q_pc = "ask"
    /\ q_valid' = validate(q_reg, q_chan, q_text)
    /\ q_pc' = "validated"
    /\ UNCHANGED <<q_reg, q_chan, q_text, q_res, q_esc>>
    /\ UNCHANGED notFind

RunFindExact ==
    /\ q_pc = "validated"
    /\ q_res' \in find_exact(q_reg, q_chan, q_text)
    /\ q_pc' = "both"
    /\ UNCHANGED <<q_reg, q_chan, q_text, q_valid, q_esc>>
    /\ UNCHANGED notFind

NextExact ==
    \/ RunValidate
    \/ RunFindExact

SpecExact == InitFind /\ [][NextExact]_vars

\* text and phrase are the same string up to the case of their letters
EqualsIgnoringCase(text, phrase) ==
    /\ Len(text) = Len(phrase)
    /\ \A i \in 1..Len(text) : Fold(text[i]) = Fold(phrase[i])

\* the clues of the queried channel, found or not, one of whose phrases the
\* text equals
NamedExactly ==
    {id \in DOMAIN q_reg :
        /\ q_reg[id].present /\ q_reg[id].channel_id = q_chan
        /\ \E p \in Phrases(q_reg[id]) : EqualsIgnoringCase(q_text, p)}

\* the text is a proper part of the phrase or the phrase a proper part of
\* the text
ProperPart(text, phrase) ==
    /\ Len(text) # Len(phrase)
    /\ Contains(text, phrase) \/ Contains(phrase, text)

\* C27: find_exact returns a clue of the given channel exactly when the text
\* equals, case-insensitively and as a whole string, the clue's trigger or
\* one of its aliases, whether the clue is found or not; it returns none
\* when the text is only a proper substring or superstring of the phrases.
C27_FindExactWholeString ==
    q_pc = "both" =>
        /\ q_res.present <=> NamedExactly # {}
        /\ q_res.present =>
              (q_res = q_reg[q_res.id] /\ q_res.id \in NamedExactly)
        /\ (\A id \in DOMAIN q_reg : \A p \in Phrases(q_reg[id]) :
               (q_reg[id].present /\ q_reg[id].channel_id = q_chan) =>
                   ProperPart(q_text, p)) => ~q_res.present

\* C27 witness: find_exact returned a found clue for a text of two characters
\* that differs from the trigger in case, while the clue's alias is a proper
\* part of the text.
C27_Witness ==
    /\ q_pc = "both" /\ q_res.present /\ q_res.found
    /\ Len(q_text) = 2 /\ q_text # q_res.trigger
    /\ EqualsIgnoringCase(q_text, q_res.trigger)
    /\ \E al \in q_res.aliases : ProperPart(q_text, al)

\* C28: validate answers true exactly when find_exact returns a clue for the
\* same channel and text, and neither changes the registry.
C28_ValidateIffFindExact ==
    /\ [](q_pc = "both" => (q_valid <=> q_res.present))
    /\ [][q_reg' = q_reg]_vars

\* C28 witness: validate answered true and find_exact returned a clue where
\* every clue the text names is already found.
C28_Witness ==
    /\ q_pc = "both" /\ q_valid /\ q_res.present
    /\ \A id \in NamedExactly : q_reg[id].found

-----------------------------------------------------------------------------
(* SpecEscape: escape_ilike applied to every string up to MaxEscLen.       *)

InitEscape ==
    /\ ParkClue /\ ParkBal /\ ParkCfg /\ ParkItem /\ ParkTmpl
    /\ ParkSet /\ ParkAlias
    /\ q_reg = <<>> /\ q_chan = NULL
    /\ q_text \in Strings(0, MaxEscLen)
    /\ q_res = None /\ q_valid = FALSE /\ q_esc = <<>>
    /\ q_pc = "ask"

RunEscape ==
    /\ q_pc = "ask"
    /\ q_esc' = escape_ilike(q_text)
    /\ q_pc' = "escaped"
    /\ UNCHANGED <<q_reg, q_chan, q_text, q_res, q_valid>>
    /\ UNCHANGED notFind

NextEscape == RunEscape

SpecEscape == InitEscape /\ [][NextEscape]_vars

IsWildcard(c) == c \in {"%", "_"}

\* where the i-th character of the input stands in the output: behind one
\* added backslash for each wildcard up to and including it
EscPos(value, i) == i + Cardinality({j \in 1..i : IsWildcard(value[j])})

\* the escaped string with every backslash that stands in front of a % or _
\* taken out
RECURSIVE RemoveAdded(_)
RemoveAdded(s) ==
    IF s = <<>> THEN <<>>
    ELSE IF Head(s) = "\\" /\ Len(s) >= 2 /\ IsWildcard(s[2])
         THEN <<s[2]>> \o RemoveAdded(Tail(Tail(s)))
         ELSE <<Head(s)>> \o RemoveAdded(Tail(s))

\* C29: escape_ilike puts exactly one backslash in front of every % and _
\* and leaves every other character, an existing backslash included, as it
\* is and in its order; taking the added backslashes out gives the input.
C29_EscapeIlike ==
    q_pc = "escaped" =>
        /\ Len(q_esc) = EscPos(q_text, Len(q_text))
        /\ \A i \in 1..Len(q_text) :
              /\ q_esc[EscPos(q_text, i)] = q_text[i]
              /\ IsWildcard(q_text[i]) => q_esc[EscPos(q_text, i) - 1] = "\\"
        /\ RemoveAdded(q_esc) = q_text

\* C29 witness: a string holding a backslash, a % and a _ has been escaped
\* to two characters more.
C29_Witness ==
    /\ q_pc = "escaped"
    /\ {q_text[i] : i \in 1..Len(q_text)} = {"\\", "%", "_"}
    /\ Len(q_esc) = Len(q_text) + 2

-----------------------------------------------------------------------------
(* SpecBalance: src/exts/gacha_management.py, the currency commands of one *)
(* guild.  Each command first fetches the configuration and checks the     *)
(* player role (an await), then issues one database statement.             *)

Cmds == 1..NumCmds
Amounts == 1..MaxAmount

\* the amounts a Balance row may hold before the commands run
InitAmounts == {0, 1}

NoRow == [present |-> FALSE, currency_amount |-> 0]

NewCmd == [state |-> "new", kind |-> NULL, user |-> NULL, amount |-> 0,
           reported |-> 0]

\* gacha_give's upsert with the update branch assigning instead of adding
give_upsert_Assign(row, amount) ==
    [present |-> TRUE, currency_amount |-> amount]

\* gacha_give's upsert with the create branch storing no currency
give_upsert_CreateZero(row, amount) ==
    IF row.present
    THEN [row EXCEPT !.currency_amount = row.currency_amount + amount]
    ELSE [present |-> TRUE, currency_amount |-> 0]

\* gacha_give: upsert(create: currency_amount = amount,
\*                    update: currency_amount increment amount)
give_upsert(row, amount) ==
    IF row.present
    THEN [row EXCEPT !.currency_amount = row.currency_amount + amount]
    ELSE [present |-> TRUE, currency_amount |-> amount]

\* gacha_remove's upsert with the update branch copied from gacha_give
remove_upsert_Increment(row, amount) ==
    IF row.present
    THEN [row EXCEPT !.currency_amount = row.currency_amount + amount]
    ELSE [present |-> TRUE, currency_amount |-> amount]

\* gacha_remove: upsert(create: currency_amount = amount,
\*                      update: currency_amount decrement amount)
remove_upsert(row, amount) ==
    IF row.present
    THEN [row EXCEPT !.currency_amount = row.currency_amount - amount]
    ELSE [present |-> TRUE, currency_amount |-> amount]

InitBalance ==
    /\ ParkFind /\ ParkClue /\ ParkCfg /\ ParkItem /\ ParkTmpl
    /\ ParkSet /\ ParkAlias
    /\ players \in [Users -> {NoRow} \cup
                      {[present |-> TRUE, currency_amount |-> a] :
                          a \in InitAmounts}]
    /\ players0 = players
    /\ player_role \in {NULL, "role"}
    /\ cmd = [c \in Cmds |-> NewCmd]

\* the checks with the test of the user's roles left out
player_check_RoleSetOnly(config_player_role, has_role) ==
    config_player_role # NULL

\* "if not config.player_role: raise ..." and "if not
\* user.has_role(config.player_role): raise ...": TRUE when neither raises
player_check(config_player_role, has_role) ==
    config_player_role # NULL /\ has_role

\* The checks every currency command on one user starts with: the player
\* role must be set and the user must hold it (has_role is read from the
\* platform when the command runs).
CurrencyCheck(c, kind, user, amount, has_role) ==
    /\ cmd[c].state = "new"
    /\ cmd' = [cmd EXCEPT ![c] =
          [state |-> IF player_check(player_role, has_role)
                     THEN "checked" ELSE "failed",
           kind |-> kind, user |-> user, amount |-> amount, reported |-> 0,
           has_role |-> has_role]]
    /\ UNCHANGED <<players, players0, player_role>>
    /\ UNCHANGED notBal

\* gacha_give after its checks: the upsert, then the reply with the new total.
GachaGive(c) ==
    /\ cmd[c].state = "checked" /\ cmd[c].kind = "give"
    /\ LET player == give_upsert(players[cmd[c].user], cmd[c].amount)
       IN  /\ players' = [players EXCEPT ![cmd[c].user] = player]
           /\ cmd' = [cmd EXCEPT ![c].state = "done",
                                 ![c].reported = player.currency_amount]
    /\ UNCHANGED <<players0, player_role>>
    /\ UNCHANGED notBal

\* gacha_remove after its checks: the upsert, then the reply with the new total.
GachaRemove(c) ==
    /\ cmd[c].state = "checked" /\ cmd[c].kind = "remove"
    /\ LET player == remove_upsert(players[cmd[c].user], cmd[c].amount)
       IN  /\ players' = [players EXCEPT ![cmd[c].user] = player]
           /\ cmd' = [cmd EXCEPT ![c].state = "done",
                                 ![c].reported = player.currency_amount]
    /\ UNCHANGED <<players0, player_role>>
    /\ UNCHANGED notBal

NextBalance ==
    \/ \E c \in Cmds, kind \in {"give", "remove"}, user \in Users,
          amount \in Amounts, has_role \in BOOLEAN :
          CurrencyCheck(c, kind, user, amount, has_role)
    \/ \E c \in Cmds : GachaGive(c)
    \/ \E c \in Cmds : GachaRemove(c)

SpecBalance == InitBalance /\ [][NextBalance]_vars

-----------------------------------------------------------------------------
(* Claims about the ledger, checked under SpecBalance.                     *)

\* the give and remove commands that have been applied to user u
DoneOn(u) == {c \in Cmds : cmd[c].state = "done" /\ cmd[c].user = u}

\* what a command adds to the balance
Delta(c) == IF cmd[c].kind = "give" THEN cmd[c].amount ELSE 0 - cmd[c].amount

RECURSIVE SumDelta(_)
SumDelta(S) ==
    IF S = {} THEN 0
    ELSE LET c == CHOOSE x \in S : TRUE IN Delta(c) + SumDelta(S \ {c})

\* the sequential orders of a set of commands
Orders(S) ==
    {o \in [1..Cardinality(S) -> S] : \A i, j \in DOMAIN o : i # j => o[i] # o[j]}

\* C2: balance updates are linearizable per (guild, user): on a pair whose
\* row existed before the commands, the stored amount is the initial amount
\* plus all granted minus all removed amounts, and the totals the commands
\* report are those of one sequential order of the commands.
C2_BalanceLinearizable ==
    \A u \in Users :
        players0[u].present =>
            /\ players[u].present
            /\ players[u].currency_amount =
                   players0[u].currency_amount + SumDelta(DoneOn(u))
            /\ \E o \in Orders(DoneOn(u)) :
                  \A k \in DOMAIN o :
                      cmd[o[k]].reported =
                          players0[u].currency_amount
                              + SumDelta({o[j] : j \in 1..k})

\* C2 witness: a give and a remove on the same existing row have both
\* completed, the remove before the give although its checks ran with the
\* give already in flight.
C2_Witness ==
    \E c, d \in Cmds :
        /\ c # d
        /\ cmd[c].state = "done" /\ cmd[c].kind = "give"
        /\ cmd[d].state = "done" /\ cmd[d].kind = "remove"
        /\ cmd[c].user = cmd[d].user
        /\ players0[cmd[c].user].present
        /\ cmd[c].reported =
               players0[cmd[c].user].currency_amount
                   - cmd[d].amount + cmd[c].amount

\* a step in which command c performs gacha_give's upsert
IsGive(c) ==
    cmd[c].state = "checked" /\ cmd[c].kind = "give" /\ cmd'[c].state = "done"

\* C10: give upserts the Balance row: with no row it creates one holding
\* the amount, otherwise it adds the amount to the stored currency_amount;
\* the total it reports is the stored balance after the operation.
C10_GiveUpserts ==
    [][\A c \in Cmds :
          IsGive(c) =>
              LET u == cmd[c].user IN
              /\ players'[u].present
              /\ players'[u].currency_amount =
                     IF players[u].present
                     THEN players[u].currency_amount + cmd[c].amount
                     ELSE cmd[c].amount
              /\ cmd'[c].reported = players'[u].currency_amount]_vars

\* C10 witness: a give has created a row that did not exist and a second
\* give has then incremented it.
C10_Witness ==
    \E c, d \in Cmds :
        /\ c # d
        /\ cmd[c].state = "done" /\ cmd[c].kind = "give"
        /\ cmd[d].state = "done" /\ cmd[d].kind = "give"
        /\ cmd[c].user = cmd[d].user
        /\ ~players0[cmd[c].user].present
        /\ cmd[c].reported = cmd[c].amount
        /\ cmd[d].reported = cmd[c].amount + cmd[d].amount

\* a step in which command c performs gacha_remove's upsert
IsRemove(c) ==
    cmd[c].state = "checked" /\ cmd[c].kind = "remove" /\ cmd'[c].state = "done"

\* C11: remove is the symmetric counterpart of give: for every prior state
\* of the row the stored currency_amount afterwards is the prior amount (0
\* when there was no row) minus the removed amount, with no floor.
C11_RemoveSymmetric ==
    [][\A c \in Cmds :
          IsRemove(c) =>
              LET u == cmd[c].user IN
              /\ players'[u].present
              /\ players'[u].currency_amount =
                     (IF players[u].present
                      THEN players[u].currency_amount ELSE 0) - cmd[c].amount]_vars

\* C12: round trip: a give of d followed by a remove of d on a user that had
\* no row, with no other command applied to that user, leaves the stored
\* currency_amount at 0.
C12_GiveThenRemoveRoundTrip ==
    [][\A c, d \in Cmds :
          (/\ IsRemove(d)
           /\ ~players0[cmd[d].user].present
           /\ DoneOn(cmd[d].user) = {c}
           /\ cmd[c].kind = "give"
           /\ cmd[c].amount = cmd[d].amount)
          => /\ players'[cmd[d].user].present
             /\ players'[cmd[d].user].currency_amount = 0
             /\ cmd'[d].reported = 0]_vars

\* C12 witness: on a user that had no row a give has created the row and a
\* remove of the same amount has then been applied to it.
C12_Witness ==
    \E c, d \in Cmds :
        /\ cmd[c].state = "done" /\ cmd[c].kind = "give"
        /\ cmd[d].state = "done" /\ cmd[d].kind = "remove"
        /\ cmd[c].user = cmd[d].user
        /\ cmd[c].amount = cmd[d].amount
        /\ ~players0[cmd[c].user].present
        /\ DoneOn(cmd[c].user) = {c, d}
        /\ cmd[c].reported = cmd[c].amount
        /\ cmd[d].reported = 0

-----------------------------------------------------------------------------
(* SpecLedger: src/exts/gacha_management.py, the reset-currency and        *)
(* give-all commands of one guild, running next to give commands; what     *)
(* remove commands leave behind is in the initial amounts.                 *)

\* the amounts a Balance row may hold before the commands run; a negative
\* amount is what earlier removes leave behind
LedgerInitAmounts == {-1, 0, 1}

InitLedger ==
    /\ ParkFind /\ ParkClue /\ ParkCfg /\ ParkItem /\ ParkTmpl
    /\ ParkSet /\ ParkAlias
    /\ players \in [Users -> {NoRow} \cup
                      {[present |-> TRUE, currency_amount |-> a] :
                          a \in LedgerInitAmounts}]
    /\ players0 = players
    /\ player_role \in {NULL, "role"}
    /\ cmd = [c \in Cmds |-> NewCmd]

\* gacha_reset_currency's update_many with the filter currency_amount != 0
reset_update_many_NotZero(row) ==
    IF row.present /\ row.currency_amount # 0
    THEN [row |-> [row EXCEPT !.currency_amount = 0], count |-> 1]
    ELSE [row |-> row, count |-> 0]

\* gacha_reset_currency: update_many(where: this user, currency_amount gt 0;
\* data: currency_amount = 0); the result is the number of rows it changed.
reset_update_many(row) ==
    IF row.present /\ row.currency_amount > 0
    THEN [row |-> [row EXCEPT !.currency_amount = 0], count |-> 1]
    ELSE [row |-> row, count |-> 0]

\* gacha_reset_currency after its checks: the update_many, then BadArgument
\* ("The user has no currency to reset.") when no row was changed.
GachaReset(c) ==
    /\ cmd[c].state = "checked" /\ cmd[c].kind = "reset"
    /\ LET r == reset_update_many(players[cmd[c].user])
       IN  /\ players' = [players EXCEPT ![cmd[c].user] = r.row]
           /\ cmd' = [cmd EXCEPT ![c].state = IF r.count = 0
                                              THEN "failed" ELSE "done",
                                 ![c].reported = r.count]
    /\ UNCHANGED <<players0, player_role>>
    /\ UNCHANGED notBal

\* gacha_give_all's checks: the player role must be set and fetch_role must
\* find it (role_found is what the platform answers).
GiveAllCheck(c, amount, role_found) ==
    /\ cmd[c].state = "new"
    /\ cmd' = [cmd EXCEPT ![c] =
          [state |-> IF player_check(player_role, role_found)
                     THEN "checked" ELSE "failed",
           kind |-> "give_all", user |-> NULL, amount |-> amount,
           reported |-> 0, has_role |-> role_found, members |-> {}]]
    /\ UNCHANGED <<players, players0, player_role>>
    /\ UNCHANGED notBal

\* the batch sent statement by statement: a failure stops it after the
\* first member's upsert
batch_commit_Partial(table, members, amount, ok) ==
    IF ok \/ members = {}
    THEN [u \in DOMAIN table |->
             IF u \in members THEN give_upsert(table[u], amount) ELSE table[u]]
    ELSE LET first == CHOOSE m \in members : TRUE
         IN  [table EXCEPT ![first] = give_upsert(table[first], amount)]

\* async with self.bot.db.batch_(): one upsert per member is queued and the
\* queue is sent on leaving the block as one transaction: either every
\* upsert is applied or, when the transaction fails, none.
batch_commit(table, members, amount, ok) ==
    IF ok
    THEN [u \in DOMAIN table |->
             IF u \in members THEN give_upsert(table[u], amount) ELSE table[u]]
    ELSE table

\* gacha_give_all after its checks: members is actual_role.members as read
\* when the batch is built, ok whether the transaction went through.
GachaGiveAll(c, members, ok) ==
    /\ cmd[c].state = "checked" /\ cmd[c].kind = "give_all"
    /\ players' = batch_commit(players, members, cmd[c].amount, ok)
    /\ cmd' = [cmd EXCEPT ![c].state = IF ok THEN "done" ELSE "failed",
                          ![c].members = members]
    /\ UNCHANGED <<players0, player_role>>
    /\ UNCHANGED notBal

NextLedger ==
    \/ \E c \in Cmds, user \in Users, amount \in Amounts, has_role \in BOOLEAN :
          CurrencyCheck(c, "give", user, amount, has_role)
    \/ \E c \in Cmds, user \in Users, has_role \in BOOLEAN :
          CurrencyCheck(c, "reset", user, 0, has_role)
    \/ \E c \in Cmds : GachaGive(c)
    \/ \E c \in Cmds : GachaReset(c)
    \/ \E c \in Cmds, amount \in Amounts, role_found \in BOOLEAN :
          GiveAllCheck(c, amount, role_found)
    \/ \E c \in Cmds, members \in SUBSET Users, ok \in BOOLEAN :
          GachaGiveAll(c, members, ok)

SpecLedger == InitLedger /\ [][NextLedger]_vars

-----------------------------------------------------------------------------
(* Claims about reset-currency and give-all, checked under SpecLedger.     *)

\* a step in which command c performs gacha_reset_currency's update_many
IsReset(c) ==
    cmd[c].state = "checked" /\ cmd[c].kind = "reset" /\ cmd'[c].state # "checked"

\* C13: reset-currency sets the stored currency_amount to 0 and reports
\* success exactly when the stored amount was greater than 0; when the
\* amount is 0 or negative, or there is no row, it reports that there was
\* nothing to reset and the stored state is unchanged (no row is created, a
\* negative balance stays negative).
C13_ResetIfPositive ==
    [][\A c \in Cmds :
          IsReset(c) =>
              LET u == cmd[c].user IN
              IF players[u].present /\ players[u].currency_amount > 0
              THEN /\ cmd'[c].state = "done"
                   /\ players' = [players EXCEPT ![u] =
                                     [present |-> TRUE, currency_amount |-> 0]]
              ELSE /\ cmd'[c].state = "failed"
                   /\ players' = players]_vars

\* C13 witness: one reset has zeroed a positive balance and another has
\* been refused on a negative balance, which is still negative.
C13_Witness ==
    \E c, d \in Cmds :
        /\ cmd[c].state = "done" /\ cmd[c].kind = "reset"
        /\ cmd[d].state = "failed" /\ cmd[d].kind = "reset"
        /\ cmd[d].user # cmd[c].user
        /\ players0[cmd[c].user].present
        /\ players0[cmd[c].user].currency_amount > 0
        /\ players[cmd[c].user].currency_amount = 0
        /\ players[cmd[d].user].present
        /\ players[cmd[d].user].currency_amount < 0

\* a step in which command c sends gacha_give_all's batch
IsGiveAll(c) ==
    cmd[c].state = "checked" /\ cmd[c].kind = "give_all"
        /\ cmd'[c].state # "checked"

\* C14: give-all is all-or-nothing: when it ends either every member
\* holding the player role has had the amount added to their balance (a row
\* created with the amount when absent) and no other row has changed, or no
\* balance has changed; it reports success only in the first case.
C14_GiveAllAllOrNothing ==
    [][\A c \in Cmds :
          IsGiveAll(c) =>
              IF cmd'[c].state = "done"
              THEN \A u \in Users :
                      players'[u] =
                          IF u \in cmd'[c].members
                          THEN [present |-> TRUE,
                                currency_amount |->
                                    (IF players[u].present
                                     THEN players[u].currency_amount ELSE 0)
                                        + cmd[c].amount]
                          ELSE players[u]
              ELSE players' = players]_vars

\* C14 witness: a give-all over two members, one with a row and one
\* without, has credited both.
C14_Witness ==
    \E c \in Cmds : \E u, v \in Users :
        /\ cmd[c].state = "done" /\ cmd[c].kind = "give_all"
        /\ cmd[c].members = {u, v}
        /\ players0[u].present /\ ~players0[v].present
        /\ players[u].currency_amount =
               players0[u].currency_amount + cmd[c].amount
        /\ players[v].present
        /\ players[v].currency_amount = cmd[c].amount

-----------------------------------------------------------------------------
(* SpecConfig: src/common/models.py, GuildConfigMixin and GetMethodsMixin. *)
(* The three sub-config tables are keyed by guild_id, which is unique in   *)
(* each, so a table is a function from the guild to its row and a create   *)
(* for a guild that has a row raises a unique-constraint error.            *)

Guilds == {"g1"}
Kinds == {"names", "bullets", "gacha"}
Calls == 1..NumCalls

\* the in-memory configuration a call holds: None, or a root record with
\* each relation either loaded (TRUE) or None (FALSE)
NoConfig == [some |-> FALSE, subs |-> [k \in Kinds |-> FALSE]]

NewCall == [pc |-> "new", op |-> NULL, guild |-> NULL, include |-> {},
            kind |-> NULL, self |-> NoConfig, ret |-> NoConfig]

\* what a configuration row holds besides its key: the values a create
\* fills in, or values a command has saved since
Vals == {"default", "custom"}

\* no row for the guild
NoCfgRow == [present |-> FALSE, val |-> "default"]

\* the row create(data={"guild_id": guild_id}) inserts: every other column
\* at its default
NewCfgRow == [present |-> TRUE, val |-> "default"]

CfgRows == {NoCfgRow} \cup {[present |-> TRUE, val |-> v] : v \in Vals}

\* find_unique(where guild_id, include): the root with the included
\* relations that exist, or None
find_unique(guild_id, include) ==
    IF root[guild_id].present
    THEN [some |-> TRUE,
          subs |-> [k \in Kinds |->
                      k \in include /\ subcfg[k][guild_id].present]]
    ELSE NoConfig

\* _fill_in_include adding nothing
add_data_Nothing(self, include) == {}

\* _fill_in_include adding every relation that is None on self
add_data_AllKinds(self, include) == {k \in Kinds : ~self.subs[k]}

\* _fill_in_include's add_data: the included relations that are None on self
add_data(self, include) == {k \in include : ~self.subs[k]}

\* _fill_in_include returning the record the update gave back
fill_in_result_Updated(self, include) ==
    [self EXCEPT !.subs = [k \in Kinds |-> self.subs[k] \/ k \in include]]

\* _fill_in_include's result: `return self`, the record as it was loaded
\* (the record the update returns is assigned to `config` and dropped)
fill_in_result(self, include) == self

\* the three resolvers all treating a missing root as get_or_create does
missing_root_AlwaysCreate(op) == "create"

\* get_or_none treating a missing root as get does
missing_root_NoneRaises(op) ==
    IF op = "get_or_create" THEN "create" ELSE "raised"

\* what each resolver does when find_unique gives None: get's
\* find_unique_or_raise raises, get_or_none returns the None it got,
\* get_or_create goes on to create the root
missing_root(op) ==
    IF op = "get" THEN "raised"
    ELSE IF op = "get_or_none" THEN "returned"
    ELSE "create"

InitConfig ==
    /\ ParkFind /\ ParkClue /\ ParkBal /\ ParkItem /\ ParkTmpl
    /\ ParkSet /\ ParkAlias
    /\ root \in [Guilds -> CfgRows]
    /\ subcfg \in [Kinds -> [Guilds -> CfgRows]]
    /\ \A g \in Guilds : \A k \in Kinds :
          subcfg[k][g].present => root[g].present
    /\ call = [c \in Calls |-> NewCall]

\* GuildConfig.get / get_or_none / get_or_create up to their first query:
\* find_unique(_or_raise) with the include, and, when the record is there
\* and nothing is to be added, _fill_in_include's immediate return.
ResolverFind(c, op, g, include) ==
    /\ call[c].pc = "new"
    /\ LET config == find_unique(g, include)
           started == [call[c] EXCEPT !.op = op, !.guild = g,
                                      !.include = include, !.self = config]
       IN  call' = [call EXCEPT ![c] =
              IF config.some
              THEN IF add_data(config, include) = {}
                   THEN [started EXCEPT !.pc = "returned", !.ret = config]
                   ELSE [started EXCEPT !.pc = "fill"]
              ELSE [started EXCEPT !.pc = missing_root(op), !.ret = NoConfig]]
    /\ UNCHANGED <<root, subcfg>>
    /\ UNCHANGED notCfg

\* GuildConfig.get_or_create after find_unique gave None:
\* create(data={"guild_id": guild_id}), which loads no relation.
ResolverCreate(c) ==
    /\ call[c].pc = "create"
    /\ LET g == call[c].guild
           config == [some |-> TRUE, subs |-> [k \in Kinds |-> FALSE]]
       IN  IF root[g].present
           THEN /\ call' = [call EXCEPT ![c].pc = "raised"]
                /\ UNCHANGED root
           ELSE /\ root' = [root EXCEPT ![g] = NewCfgRow]
                /\ call' = [call EXCEPT ![c] =
                      IF call[c].include = {}
                      THEN [@ EXCEPT !.pc = "returned", !.self = config,
                                     !.ret = config]
                      ELSE [@ EXCEPT !.pc = "fill", !.self = config]]
    /\ UNCHANGED subcfg
    /\ UNCHANGED notCfg

\* _fill_in_include with add_data not empty: one update of the root with a
\* nested create per missing relation, then the return.
ResolverFill(c) ==
    /\ call[c].pc = "fill"
    /\ LET g == call[c].guild
           add == add_data(call[c].self, call[c].include)
           ret == fill_in_result(call[c].self, call[c].include)
       IN  IF ~root[g].present
           THEN \* no record to update: update gives None, nothing is written
                /\ call' = [call EXCEPT ![c].pc = "returned", ![c].ret = ret]
                /\ UNCHANGED subcfg
           ELSE IF \E k \in add : subcfg[k][g].present
           THEN \* a nested create hits the unique constraint
                /\ call' = [call EXCEPT ![c].pc = "raised"]
                /\ UNCHANGED subcfg
           ELSE /\ subcfg' = [k \in Kinds |->
                      IF k \in add
                      THEN [subcfg[k] EXCEPT ![g] = NewCfgRow]
                      ELSE subcfg[k]]
                /\ call' = [call EXCEPT ![c].pc = "returned", ![c].ret = ret]
    /\ UNCHANGED root
    /\ UNCHANGED notCfg

\* GetMethodsMixin.get_or_create (Names, BulletConfig, GachaConfig) up to
\* its first query: get_or_none.
SubFind(c, kind, g) ==
    /\ call[c].pc = "new"
    /\ LET started == [call[c] EXCEPT !.op = "sub_get_or_create",
                                      !.guild = g, !.kind = kind]
       IN  call' = [call EXCEPT ![c] =
              IF subcfg[kind][g].present
              THEN [started EXCEPT !.pc = "returned"]
              ELSE [started EXCEPT !.pc = "subcreate"]]
    /\ UNCHANGED <<root, subcfg>>
    /\ UNCHANGED notCfg

\* GetMethodsMixin.get_or_create after get_or_none gave None:
\* create(data={"guild_id": guild_id}).
SubCreate(c) ==
    /\ call[c].pc = "subcreate"
    /\ LET g == call[c].guild
           kind == call[c].kind
       IN  IF subcfg[kind][g].present
           THEN /\ call' = [call EXCEPT ![c].pc = "raised"]
                /\ UNCHANGED subcfg
           ELSE /\ subcfg' = [subcfg EXCEPT ![kind][g] = NewCfgRow]
                /\ call' = [call EXCEPT ![c].pc = "returned"]
    /\ UNCHANGED root
    /\ UNCHANGED notCfg

\* GuildConfig.save with a data that also reaches the rows of the
\* relations the record carries
save_writes_Cascade(self) == {"root"} \cup {k \in Kinds : self.subs[k]}

\* GuildConfig.save: data = model_dump(exclude={"names", "names_id",
\* "bullets", "guild_id"}), update(where guild_id, data).  The rows the
\* update writes: the root's, unless the record carries the gacha relation,
\* which the exclude set leaves in the data as a nested record that is no
\* nested write, and the update is refused.
save_writes(self) == IF self.subs["gacha"] THEN {} ELSE {"root"}

\* a save that writes the row away
cfg_update_Retract(row, v) == NoCfgRow

\* the update of a save (Names.save, BulletConfig.save, GachaConfig.save,
\* GuildConfig.save): update(where guild_id, data=model_dump(exclude=...)),
\* the row's columns are overwritten and the row stays; without a row
\* nothing is written.
cfg_update(row, v) == IF row.present THEN [row EXCEPT !.val = v] ELSE row

\* A command changes a field of the root record a resolver returned to it
\* and calls GuildConfig.save.
RootSave(c, v) ==
    /\ call[c].pc = "returned" /\ call[c].ret.some
    /\ call[c].op \in {"get", "get_or_none", "get_or_create"}
    /\ LET g == call[c].guild
           w == save_writes(call[c].ret)
       IN  /\ root' = IF "root" \in w
                      THEN [root EXCEPT ![g] = cfg_update(@, v)] ELSE root
           /\ subcfg' = [k \in Kinds |->
                 IF k \in w THEN [subcfg[k] EXCEPT ![g] = cfg_update(@, v)]
                 ELSE subcfg[k]]
           /\ call' = [call EXCEPT ![c] =
                 [NewCall EXCEPT !.pc = IF w = {} THEN "raised" ELSE "saved",
                                 !.op = "save_root", !.guild = g,
                                 !.ret = call[c].ret]]
    /\ UNCHANGED notCfg

\* A command changes a field of a sub-config and calls its save: either the
\* record its own get_or_create returned (bullet_config.py,
\* set_bullet_channel) or the one the root record carries
\* (config.names.save(), config.bullets.save()).
SubSave(c, k, v) ==
    /\ call[c].pc = "returned"
    /\ \/ call[c].op = "sub_get_or_create" /\ call[c].kind = k
       \/ /\ call[c].op \in {"get", "get_or_none", "get_or_create"}
          /\ call[c].ret.some /\ call[c].ret.subs[k]
    /\ subcfg' = [subcfg EXCEPT ![k][call[c].guild] = cfg_update(@, v)]
    /\ call' = [call EXCEPT ![c] =
          [NewCall EXCEPT !.pc = "saved", !.op = "save_sub",
                          !.guild = call[c].guild, !.kind = k]]
    /\ UNCHANGED root
    /\ UNCHANGED notCfg

\* on_guild_join: nothing when the bot is not ready; otherwise the handler
\* evaluates models.Config, a name src/common/models.py does not define, and
\* ends with that error before any query is sent.
GuildJoin(c, g, is_ready) ==
    /\ call[c].pc = "new"
    /\ call' = [call EXCEPT ![c] =
          [@ EXCEPT !.op = "guild_join", !.guild = g,
                    !.pc = IF is_ready THEN "raised" ELSE "returned"]]
    /\ UNCHANGED <<root, subcfg>>
    /\ UNCHANGED notCfg

\* on_guild_left: nothing when the bot is not ready; otherwise the handler
\* evaluates models.Config, the same undefined name, and ends with that
\* error before the delete is sent.
GuildLeft(c, g, is_ready) ==
    /\ call[c].pc = "new"
    /\ call' = [call EXCEPT ![c] =
          [@ EXCEPT !.op = "guild_left", !.guild = g,
                    !.pc = IF is_ready THEN "raised" ELSE "returned"]]
    /\ UNCHANGED <<root, subcfg>>
    /\ UNCHANGED notCfg

NextConfig ==
    \/ \E c \in Calls, op \in {"get", "get_or_none", "get_or_create"},
          g \in Guilds, include \in SUBSET Kinds :
          ResolverFind(c, op, g, include)
    \/ \E c \in Calls : ResolverCreate(c)
    \/ \E c \in Calls : ResolverFill(c)
    \/ \E c \in Calls, kind \in Kinds, g \in Guilds : SubFind(c, kind, g)
    \/ \E c \in Calls : SubCreate(c)

SpecConfig == InitConfig /\ [][NextConfig]_vars

-----------------------------------------------------------------------------
(* SpecStore: the same resolvers together with the saves of the commands   *)
(* that use them and the guild-join event, handled one after another by    *)
(* NumHandlers handlers: a handler that has finished takes the next event. *)

Handlers == 1..NumHandlers

InitStore ==
    /\ ParkFind /\ ParkClue /\ ParkBal /\ ParkItem /\ ParkTmpl
    /\ ParkSet /\ ParkAlias
    /\ root \in [Guilds -> CfgRows]
    /\ subcfg \in [Kinds -> [Guilds -> CfgRows]]
    /\ \A g \in Guilds : \A k \in Kinds :
          subcfg[k][g].present => root[g].present
    /\ call = [c \in Handlers |-> NewCall]

\* the handler has ended (returned, or failed with its error reported) and
\* is given the next event
NextEvent(c) ==
    /\ call[c].pc \in {"returned", "raised", "saved"}
    /\ call' = [call EXCEPT ![c] = NewCall]
    /\ UNCHANGED <<root, subcfg>>
    /\ UNCHANGED notCfg

NextStore ==
    \/ \E c \in Handlers, op \in {"get", "get_or_none", "get_or_create"},
          g \in Guilds, include \in SUBSET Kinds :
          ResolverFind(c, op, g, include)
    \/ \E c \in Handlers : ResolverCreate(c)
    \/ \E c \in Handlers : ResolverFill(c)
    \/ \E c \in Handlers, kind \in Kinds, g \in Guilds : SubFind(c, kind, g)
    \/ \E c \in Handlers : SubCreate(c)
    \/ \E c \in Handlers, v \in Vals : RootSave(c, v)
    \/ \E c \in Handlers, k \in Kinds, v \in Vals : SubSave(c, k, v)
    \/ \E c \in Handlers, g \in Guilds, is_ready \in BOOLEAN :
          GuildJoin(c, g, is_ready)
    \/ \E c \in Handlers, g \in Guilds, is_ready \in BOOLEAN :
          GuildLeft(c, g, is_ready)
    \/ \E c \in Handlers : NextEvent(c)

SpecStore == InitStore /\ [][NextStore]_vars

-----------------------------------------------------------------------------
(* Claims about the resolver, checked under SpecConfig.                    *)

Finished(c) == call[c].pc \in {"returned", "raised"}

\* call c is a get_or_create that asks for sub-config k
GetOrCreates(c, k) ==
    \/ call[c].op = "get_or_create" /\ k \in call[c].include
    \/ call[c].op = "sub_get_or_create" /\ call[c].kind = k

\* C3: two concurrent get_or_create calls for the same guild that ask for
\* the same sub-config (through GuildConfig or through the sub-config's own
\* class) leave one row of it and both complete without an error; the same
\* for the root record.
C3_ConcurrentGetOrCreate ==
    \A c, d \in Calls :
        (c # d /\ Finished(c) /\ Finished(d)
              /\ call[c].guild = call[d].guild) =>
            /\ \A k \in Kinds :
                  (GetOrCreates(c, k) /\ GetOrCreates(d, k)) =>
                      /\ call[c].pc = "returned" /\ call[d].pc = "returned"
                      /\ subcfg[k][call[c].guild].present
            /\ (call[c].op = "get_or_create" /\ call[d].op = "get_or_create") =>
                      /\ call[c].pc = "returned" /\ call[d].pc = "returned"
                      /\ root[call[c].guild].present

\* C4: when the root record exists, the aggregate that get, get_or_none and
\* get_or_create return has every requested sub-config populated.
C4_RequestedSubConfigsPopulated ==
    \A c \in Calls :
        (call[c].pc = "returned" /\ call[c].ret.some
              /\ call[c].op \in {"get", "get_or_none", "get_or_create"}) =>
            \A k \in call[c].include : call[c].ret.subs[k]


-----------------------------------------------------------------------------
(* Claims about the resolvers and the saves, checked under SpecStore.      *)

ResolverOps == {"get", "get_or_none", "get_or_create"}

\* a step in which handler c runs a resolver up to its first query
IsFind(c) ==
    call[c].pc = "new" /\ call'[c].pc # "new" /\ call'[c].op \in ResolverOps

\* a step of a resolver run by handler c
IsResolverStep(c) ==
    \/ IsFind(c)
    \/ call[c].pc \in {"create", "fill"} /\ call'[c] # call[c]

\* a step in which handler c runs a save
IsSave(c) == call[c].pc = "returned" /\ call'[c].pc \in {"saved", "raised"}

\* C21: GuildConfig.get for a guild without a root record fails with the
\* not-found error and creates nothing, whatever the include set: afterwards
\* the guild still has no root record, and no sub-config row that was not
\* there before.
C21_GetAbsentRootNotFound ==
    [][\A c \in Handlers :
          (IsFind(c) /\ call'[c].op = "get"
                /\ ~root[call'[c].guild].present) =>
              /\ call'[c].pc = "raised"
              /\ ~root'[call'[c].guild].present
              /\ root' = root /\ subcfg' = subcfg]_vars

\* C21 witness: a get that asked for all three sub-configs has failed and the
\* guild has no root record.
C21_Witness ==
    \E c \in Handlers :
        /\ call[c].pc = "raised" /\ call[c].op = "get"
        /\ call[c].include = Kinds
        /\ ~root[call[c].guild].present
        /\ \A k \in Kinds : ~subcfg[k][call[c].guild].present

\* C22: after GuildConfig.get_or_create has returned, the guild has its root
\* record and every requested sub-config row; a root record that was there
\* is left as it was by every step of a resolver, and one that was not is
\* created with its defaults.
C22_GetOrCreate ==
    /\ [](\A c \in Handlers :
             (call[c].pc = "returned" /\ call[c].op = "get_or_create") =>
                 /\ root[call[c].guild].present
                 /\ \A k \in call[c].include :
                       subcfg[k][call[c].guild].present)
    /\ [][\A c \in Handlers :
             IsResolverStep(c) =>
                 LET g == call'[c].guild
                 IN  /\ \A h \in Guilds : h # g => root'[h] = root[h]
                     /\ root[g].present => root'[g] = root[g]
                     /\ (~root[g].present /\ root'[g].present) =>
                            (call[c].op = "get_or_create"
                                /\ root'[g] = NewCfgRow)]_vars

\* C22 witness: a get_or_create that loaded none of the three sub-configs it
\* was asked for has returned, and the three rows are there with defaults.
C22_Witness ==
    \E c \in Handlers :
        /\ call[c].pc = "returned" /\ call[c].op = "get_or_create"
        /\ call[c].include = Kinds
        /\ \A k \in Kinds : ~call[c].self.subs[k]
        /\ root[call[c].guild] = NewCfgRow
        /\ \A k \in Kinds : subcfg[k][call[c].guild] = NewCfgRow

\* C23: GuildConfig.get_or_none on a guild without a root record returns
\* None and writes nothing; on a guild with a root record its first step
\* has the outcome get's has for the same include set (the record
\* find_unique loaded, returned at once or handed to _fill_in_include).
C23_GetOrNone ==
    [][\A c \in Handlers :
          (IsFind(c) /\ call'[c].op \in {"get", "get_or_none"}) =>
              LET g == call'[c].guild
                  inc == call'[c].include
              IN  /\ root' = root /\ subcfg' = subcfg
                  /\ (~root[g].present /\ call'[c].op = "get_or_none") =>
                        (call'[c].pc = "returned" /\ ~call'[c].ret.some)
                  /\ root[g].present =>
                        /\ call'[c].self = find_unique(g, inc)
                        /\ call'[c].pc =
                              IF \A k \in inc : subcfg[k][g].present
                              THEN "returned" ELSE "fill"]_vars

\* C23 witness: a get_or_none that asked for all three sub-configs has
\* returned None and the guild has no root record and no sub-config row.
C23_Witness ==
    \E c \in Handlers :
        /\ call[c].pc = "returned" /\ call[c].op = "get_or_none"
        /\ call[c].include = Kinds /\ ~call[c].ret.some
        /\ ~root[call[c].guild].present
        /\ \A k \in Kinds : ~subcfg[k][call[c].guild].present

\* C24: sub-config rows are created only on request: a row appears only in
\* a step of a resolver whose include set names its kind (or of that
\* sub-config's own get_or_create) and appears with its defaults; the
\* guild-join handler and a resolver with an empty include set create none;
\* a row that is there is left as it is by every step that is no save.
C24_LazyOnlyRequested ==
    [][/\ \A k \in Kinds, g \in Guilds :
             /\ (~subcfg[k][g].present /\ subcfg'[k][g].present) =>
                   /\ subcfg'[k][g] = NewCfgRow
                   /\ \E c \in Handlers :
                         /\ call'[c] # call[c] /\ call[c].guild = g
                         /\ \/ call[c].pc = "fill" /\ k \in call[c].include
                            \/ call[c].pc = "subcreate" /\ call[c].kind = k
             /\ (subcfg[k][g].present /\ \A c \in Handlers : ~IsSave(c)) =>
                   subcfg'[k][g] = subcfg[k][g]
       /\ \A c \in Handlers :
             (\/ call[c].pc = "new" /\ call'[c].op = "guild_join"
              \/ IsResolverStep(c) /\ call'[c].include = {}) =>
                 subcfg' = subcfg]_vars

\* C24 witness: a get that asked for the names alone, on a guild with a root
\* record and a saved clue-settings row, has created the names row; the
\* clue-settings row is as it was and there is no economy row.
C24_Witness ==
    \E c \in Handlers :
        /\ call[c].pc = "returned" /\ call[c].op = "get"
        /\ call[c].include = {"names"} /\ ~call[c].self.subs["names"]
        /\ subcfg["names"][call[c].guild] = NewCfgRow
        /\ subcfg["bullets"][call[c].guild].present
        /\ subcfg["bullets"][call[c].guild].val = "custom"
        /\ ~subcfg["gacha"][call[c].guild].present

\* C25: for each sub-config kind of a guild the only transition is absent to
\* present: a row that exists exists after every step of the resolvers, the
\* saves and the guild-join handler.
C25_SubConfigNeverRetracted ==
    [][\A k \in Kinds, g \in Guilds :
          subcfg[k][g].present => subcfg'[k][g].present]_vars

\* C25 witness: a command has saved a sub-config, and its row is there with
\* the saved value.
C25_Witness ==
    \E c \in Handlers : \E k \in Kinds :
        /\ call[c].pc = "saved" /\ call[c].op = "save_sub" /\ call[c].kind = k
        /\ subcfg[k][call[c].guild].present
        /\ subcfg[k][call[c].guild].val = "custom"

\* C26: save never cascades: a save of the root record leaves the three
\* sub-config rows as they are, also those the record carries, and writes at
\* most the root row of its guild; a save of a sub-config writes at most
\* that sub-config's row and leaves the root record, the other sub-configs
\* and the item catalog as they are.
C26_SaveNeverCascades ==
    [][\A c \in Handlers :
          IsSave(c) =>
              LET g == call[c].guild IN
              /\ items' = items
              /\ \A h \in Guilds : h # g =>
                    (root'[h] = root[h]
                        /\ \A k \in Kinds : subcfg'[k][h] = subcfg[k][h])
              /\ call'[c].op = "save_root" =>
                    /\ subcfg' = subcfg
                    /\ root'[g].present = root[g].present
              /\ call'[c].op = "save_sub" =>
                    /\ root' = root
                    /\ \A k \in Kinds \ {call'[c].kind} :
                          subcfg'[k][g] = subcfg[k][g]
                    /\ subcfg'[call'[c].kind][g].present =
                          subcfg[call'[c].kind][g].present]_vars

\* C26 witness: a root record that carried its names row has been saved with
\* a changed field, and the names row still holds its defaults.
C26_Witness ==
    \E c \in Handlers :
        /\ call[c].pc = "saved" /\ call[c].op = "save_root"
        /\ call[c].ret.subs["names"]
        /\ root[call[c].guild].val = "custom"
        /\ subcfg["names"][call[c].guild] = NewCfgRow

\* the handler has finished with a guild-join event of guild g
JoinHandled(c, g) ==
    /\ call[c].op = "guild_join" /\ call[c].guild = g
    /\ call[c].pc \in {"returned", "raised"}

\* C31: after a guild-join event for a community has been handled, the
\* community's root record exists, whether or not one existed before and
\* whatever the bot's ready state was.
C31_GuildJoinCreatesRoot ==
    \A c \in Handlers : \A g \in Guilds :
        JoinHandled(c, g) => root[g].present

\* C39: every names, clue-settings or economy row of a community belongs to
\* an existing root record of that community.
C39_SubConfigHasRoot ==
    \A k \in Kinds : \A g \in Guilds :
        subcfg[k][g].present => root[g].present

-----------------------------------------------------------------------------
(* SpecItems: src/exts/gacha_management.py, the item catalog: the          *)
(* add-item modal, the item-edit command with its modal, and item-remove.  *)
(* A handler gives way to the others at each database call.                *)

ItemIds == 1..MaxItems
ICmds == 1..NumICmds
ItemGuilds == {"g1", "g2"}
ItemNames == {"n1", "n2"}
ItemDescriptions == {"d"}

\* ctx.kwargs without the key "item_amount"
Absent == "ABSENT"

\* the texts an amount field is submitted with
AmountTexts == {"", "-2", "0"}

NoItem == [present |-> FALSE, guild_id |-> NULL, name |-> NULL,
           description |-> NULL, amount |-> -1, image |-> NULL]

NewICmd == [state |-> "new", kind |-> NULL, guild |-> NULL, id |-> 0,
            name |-> NULL, description |-> NULL, item_amount |-> NULL,
            prefill |-> NULL, error |-> NULL]

\* int(): the value of a text that is an integer literal
IntOf == ("-2" :> -2) @@ ("-1" :> -1) @@ ("0" :> 0) @@ ("1" :> 1)

\* str(): the text of an amount a row can hold
TextOf == (-1 :> "-1") @@ (0 :> "0") @@ (1 :> "1")

\* str_amount = ctx.kwargs.get("item_amount", "-1")
str_amount(item_amount) ==
    IF item_amount = Absent THEN "-1" ELSE item_amount

\* the amount check without its floor
valid_amount_NoFloor(text) ==
    IF text \in DOMAIN IntOf
    THEN [ok |-> TRUE, amount |-> IntOf[text]]
    ELSE [ok |-> FALSE, amount |-> 0]

\* try: amount = int(str_amount); if amount < -1: raise ValueError
\* except ValueError: raise BadArgument
valid_amount(text) ==
    IF text \in DOMAIN IntOf /\ IntOf[text] >= -1
    THEN [ok |-> TRUE, amount |-> IntOf[text]]
    ELSE [ok |-> FALSE, amount |-> 0]

\* the rows where={"guild_id": ..., "name": ...} selects
matching(table, guild_id, name) ==
    {id \in DOMAIN table :
        /\ table[id].present
        /\ table[id].guild_id = guild_id
        /\ table[id].name = name}

\* the duplicate check counting the name in every guild
count_name_AnyGuild(table, guild_id, name) ==
    Cardinality({id \in DOMAIN table :
                    table[id].present /\ table[id].name = name})

\* GachaItem.prisma().count(where={"guild_id": ctx.guild_id, "name": name})
count_name(table, guild_id, name) ==
    Cardinality(matching(table, guild_id, name))

\* delete_many selecting on the name alone
delete_many_AnyGuild(table, guild_id, name) ==
    LET gone == {id \in DOMAIN table :
                    table[id].present /\ table[id].name = name}
    IN  [table |-> [id \in DOMAIN table |->
                       IF id \in gone THEN NoItem ELSE table[id]],
         count |-> Cardinality(gone)]

\* GachaItem.prisma().delete_many(where={"guild_id": ..., "name": name}):
\* the table without the selected rows, and how many there were
delete_many(table, guild_id, name) ==
    LET gone == matching(table, guild_id, name)
    IN  [table |-> [id \in DOMAIN table |->
                       IF id \in gone THEN NoItem ELSE table[id]],
         count |-> Cardinality(gone)]

\* GachaItem.prisma().update(data=..., where={"id": item_id}): the row's
\* name, description, amount and image are overwritten; when no row has the
\* id nothing is written and the call returns None without raising.
update_item(table, item_id, name, description, amount, image) ==
    IF table[item_id].present
    THEN [table EXCEPT ![item_id] =
             [@ EXCEPT !.name = name, !.description = description,
                       !.amount = amount, !.image = image]]
    ELSE table

\* the amount field of the edit modal:
\* value=str(item.amount) if item.amount != -1 else ipy.MISSING
prefill_amount(item) ==
    IF item.amount # -1 THEN TextOf[item.amount] ELSE Absent

InitItems ==
    /\ ParkFind /\ ParkClue /\ ParkBal /\ ParkCfg /\ ParkTmpl
    /\ ParkSet /\ ParkAlias
    /\ items = [id \in ItemIds |-> NoItem]
    /\ next_id = 1
    /\ icmd = [s \in ICmds |-> NewICmd]

\* a handler slot that runs no handler
Idle(s) == icmd[s].state \in {"new", "done", "failed"}

\* a new handler is given the lowest slot that runs none
Free(s) == Idle(s) /\ \A t \in ICmds : t < s => ~Idle(t)

\* add_gacha_item_modal up to its create: the submitted fields are read,
\* the name is counted in the guild (BadArgument when it is there), then the
\* amount is parsed (BadArgument when it is no integer or below -1).
AddCheck(s, g, name, description, item_amount) ==
    /\ Free(s)
    /\ LET rec == [NewICmd EXCEPT !.kind = "add", !.guild = g, !.name = name,
                                  !.description = description,
                                  !.item_amount = item_amount]
       IN  icmd' = [icmd EXCEPT ![s] =
               IF count_name(items, g, name) > 0
               THEN [rec EXCEPT !.state = "failed", !.error = "duplicate"]
               ELSE IF ~valid_amount(str_amount(item_amount)).ok
               THEN [rec EXCEPT !.state = "failed", !.error = "amount"]
               ELSE [rec EXCEPT !.state = "add_checked"]]
    /\ UNCHANGED <<items, next_id>>
    /\ UNCHANGED notItem

\* add_gacha_item_modal's create and its reply; the row gets the next id.
AddCreate(s) ==
    /\ icmd[s].state = "add_checked"
    /\ next_id <= MaxItems
    /\ items' = [items EXCEPT ![next_id] =
          [present |-> TRUE, guild_id |-> icmd[s].guild,
           name |-> icmd[s].name, description |-> icmd[s].description,
           amount |-> valid_amount(str_amount(icmd[s].item_amount)).amount,
           image |-> NULL]]
    /\ next_id' = next_id + 1
    /\ icmd' = [icmd EXCEPT ![s].state = "done", ![s].id = next_id]
    /\ UNCHANGED notItem

\* gacha_item_edit: find_first by guild and name (BadArgument when there is
\* none), then the modal is sent with the row's id in its custom_id and the
\* row's fields filled in.
EditOpen(s, g, name) ==
    /\ Free(s)
    /\ LET rec == [NewICmd EXCEPT !.kind = "edit", !.guild = g]
       IN  IF matching(items, g, name) = {}
           THEN icmd' = [icmd EXCEPT ![s] =
                    [rec EXCEPT !.state = "failed", !.error = "no item"]]
           ELSE \E id \in matching(items, g, name) :
                    icmd' = [icmd EXCEPT ![s] =
                        [rec EXCEPT !.state = "edit_modal", !.id = id,
                                    !.prefill = prefill_amount(items[id])]]
    /\ UNCHANGED <<items, next_id>>
    /\ UNCHANGED notItem

\* on_modal_edit_gacha_item up to its update: the id is taken from the
\* custom_id, the submitted fields are read, the id is counted (BadArgument
\* when it is gone), then the amount is parsed.
EditCheck(s, name, description, item_amount) ==
    /\ icmd[s].state = "edit_modal"
    /\ LET rec == [icmd[s] EXCEPT !.name = name, !.description = description,
                                  !.item_amount = item_amount]
       IN  icmd' = [icmd EXCEPT ![s] =
               IF ~items[icmd[s].id].present
               THEN [rec EXCEPT !.state = "failed", !.error = "gone"]
               ELSE IF ~valid_amount(str_amount(item_amount)).ok
               THEN [rec EXCEPT !.state = "failed", !.error = "amount"]
               ELSE [rec EXCEPT !.state = "edit_checked"]]
    /\ UNCHANGED <<items, next_id>>
    /\ UNCHANGED notItem

\* on_modal_edit_gacha_item's update and its reply "Edit item ...", which
\* is sent whatever the update returned.
EditWrite(s) ==
    /\ icmd[s].state = "edit_checked"
    /\ items' = update_item(items, icmd[s].id, icmd[s].name,
                    icmd[s].description,
                    valid_amount(str_amount(icmd[s].item_amount)).amount, NULL)
    /\ icmd' = [icmd EXCEPT ![s].state = "done"]
    /\ UNCHANGED next_id
    /\ UNCHANGED notItem

\* gacha_item_remove: delete_many by guild and name, BadArgument when no
\* row was deleted.
ItemRemove(s, g, name) ==
    /\ Free(s)
    /\ LET r == delete_many(items, g, name)
           rec == [NewICmd EXCEPT !.kind = "remove", !.guild = g,
                                  !.name = name]
       IN  /\ items' = r.table
           /\ icmd' = [icmd EXCEPT ![s] =
                  IF r.count <= 0
                  THEN [rec EXCEPT !.state = "failed", !.error = "no item"]
                  ELSE [rec EXCEPT !.state = "done"]]
    /\ UNCHANGED next_id
    /\ UNCHANGED notItem

NextItems ==
    \/ \E s \in ICmds, g \in ItemGuilds, name \in ItemNames,
          description \in ItemDescriptions,
          item_amount \in AmountTexts \cup {Absent} :
          AddCheck(s, g, name, description, item_amount)
    \/ \E s \in ICmds : AddCreate(s)
    \/ \E s \in ICmds, g \in ItemGuilds, name \in ItemNames :
          EditOpen(s, g, name)
    \/ \E s \in ICmds, name \in ItemNames,
          description \in ItemDescriptions,
          item_amount \in AmountTexts \cup {Absent} :
          EditCheck(s, name, description, item_amount)
    \/ \E s \in ICmds : EditWrite(s)
    \/ \E s \in ICmds, g \in ItemGuilds, name \in ItemNames :
          ItemRemove(s, g, name)

SpecItems == InitItems /\ [][NextItems]_vars

-----------------------------------------------------------------------------
(* Claims about the item catalog, checked under SpecItems.                 *)

\* a step in which slot s runs a handler of the given kind up to its first
\* database call
Starts(s, kind) ==
    Idle(s) /\ icmd'[s] # icmd[s] /\ icmd'[s].kind = kind

\* a step in which slot s runs add_gacha_item_modal's create
IsAddCreate(s) == icmd[s].state = "add_checked" /\ icmd'[s].state = "done"

\* a step in which slot s runs the edit modal's count and amount check
IsEditCheck(s) ==
    icmd[s].state = "edit_modal" /\ icmd'[s].state # "edit_modal"

\* a step in which slot s runs the edit modal's update
IsEditWrite(s) == icmd[s].state = "edit_checked" /\ icmd'[s].state = "done"

\* the present rows of guild g named n
Named(table, g, n) ==
    {id \in ItemIds : table[id].present /\ table[id].guild_id = g
                         /\ table[id].name = n}

\* C15: adding an item fails with the duplicate-name error and leaves the
\* catalog unchanged when the guild has an item of that name; with the name
\* used only in another guild (and a valid amount) the add goes on to its
\* create, which adds exactly one item, to the adding guild under that name.
C15_CreateItemDuplicate ==
    [][\A s \in ICmds :
          /\ Starts(s, "add") =>
                LET g == icmd'[s].guild
                    n == icmd'[s].name
                IN  /\ items' = items
                    /\ Named(items, g, n) # {} =>
                          /\ icmd'[s].state = "failed"
                          /\ icmd'[s].error = "duplicate"
                    /\ (/\ Named(items, g, n) = {}
                        /\ icmd'[s].item_amount \in {Absent, "0"}) =>
                          icmd'[s].state = "add_checked"
          /\ IsAddCreate(s) =>
                \E id \in ItemIds :
                    /\ ~items[id].present /\ items'[id].present
                    /\ items'[id].guild_id = icmd[s].guild
                    /\ items'[id].name = icmd[s].name
                    /\ \A j \in ItemIds \ {id} : items'[j] = items[j]]_vars

\* C15 witness: an add was refused as a duplicate in a guild that has the
\* name, and an add of the same name in the other guild has created its item.
C15_Witness ==
    \E s, t \in ICmds :
        /\ icmd[s].kind = "add" /\ icmd[s].state = "failed"
        /\ icmd[s].error = "duplicate"
        /\ icmd[t].kind = "add" /\ icmd[t].state = "done"
        /\ icmd[t].name = icmd[s].name /\ icmd[t].guild # icmd[s].guild
        /\ Cardinality(Named(items, icmd[s].guild, icmd[s].name)) = 1
        /\ Named(items, icmd[t].guild, icmd[t].name) = {icmd[t].id}

\* C16: item names are unique within a guild in every reachable state.
C16_NamesUniquePerGuild ==
    \A i, j \in ItemIds :
        (/\ i # j
         /\ items[i].present /\ items[j].present
         /\ items[i].guild_id = items[j].guild_id)
        => items[i].name # items[j].name

\* C17: the edit handler reports success only if an existing item was
\* updated: its update step ends in success only when the row is there.
C17_EditReportsNotFound ==
    [][\A s \in ICmds :
          IsEditWrite(s) => items[icmd[s].id].present]_vars

\* C18: item-remove deletes exactly the items of the guild with the name
\* and leaves every other item as it was, same-named items of other guilds
\* included; when no item matches it reports a failure and the catalog is
\* unchanged.
C18_DeleteItemFrame ==
    [][\A s \in ICmds :
          Starts(s, "remove") =>
              LET g == icmd'[s].guild
                  n == icmd'[s].name
              IN  /\ \A id \in ItemIds :
                        items'[id] = IF id \in Named(items, g, n)
                                     THEN NoItem ELSE items[id]
                  /\ (icmd'[s].state = "failed") <=> (Named(items, g, n) = {})
                  /\ (icmd'[s].state = "done") <=> (Named(items, g, n) # {})]_vars

\* C18 witness: an item was removed from one guild while the other guild's
\* item of the same name is still there.
C18_Witness ==
    \E s \in ICmds : \E g \in ItemGuilds :
        /\ icmd[s].kind = "remove" /\ icmd[s].state = "done"
        /\ g # icmd[s].guild
        /\ Named(items, icmd[s].guild, icmd[s].name) = {}
        /\ Named(items, g, icmd[s].name) # {}
        /\ next_id > MaxItems

\* an amount field left out of a submission: the key is missing from
\* ctx.kwargs, or it is there with the empty text of a field left blank
Omitted == {Absent, ""}

\* C19: a submission that leaves the amount out is accepted and stores the
\* amount -1, never 0: the add handler goes on to its create and writes -1,
\* the edit handler goes on to its update and writes -1, so an item at -1
\* edited with the field left out stays at -1.
C19_OmittedAmountUnlimited ==
    [][\A s \in ICmds :
          /\ (Starts(s, "add") /\ icmd'[s].item_amount \in Omitted
                  /\ Named(items, icmd'[s].guild, icmd'[s].name) = {}) =>
                icmd'[s].state = "add_checked"
          /\ (IsEditCheck(s) /\ icmd'[s].item_amount \in Omitted
                  /\ items[icmd[s].id].present) =>
                icmd'[s].state = "edit_checked"
          /\ (IsAddCreate(s) /\ icmd[s].item_amount \in Omitted) =>
                items'[next_id].amount = -1
          /\ (IsEditWrite(s) /\ icmd[s].item_amount \in Omitted
                  /\ items[icmd[s].id].present) =>
                items'[icmd[s].id].amount = -1]_vars

\* C20: every stored item has amount >= -1 in every reachable state, and an
\* add or edit submission whose amount is no integer or is below -1 is
\* rejected with the catalog unchanged.
C20_AmountAtLeastMinusOne ==
    /\ [](\A id \in ItemIds : items[id].present => items[id].amount >= -1)
    /\ [][\A s \in ICmds :
             ((Starts(s, "add") \/ IsEditCheck(s))
                 /\ icmd'[s].item_amount \in {"", "-2"}) =>
                (icmd'[s].state = "failed" /\ items' = items)]_vars

\* C20 witness: an edit submitted with the amount -2 and an add submitted
\* with an empty amount were both refused for their amount, and the edited
\* item is as it was created.
C20_Witness ==
    \E s, t \in ICmds :
        /\ icmd[s].kind = "edit" /\ icmd[s].state = "failed"
        /\ icmd[s].error = "amount" /\ icmd[s].item_amount = "-2"
        /\ icmd[t].kind = "add" /\ icmd[t].state = "failed"
        /\ icmd[t].error = "amount" /\ icmd[t].item_amount = ""
        /\ items[icmd[s].id].present
        /\ items[icmd[s].id].amount = 0
        /\ icmd[s].name # items[icmd[s].id].name

-----------------------------------------------------------------------------
(* SpecTemplates: src/exts/bullet_config.py, bullet_finders_edit.  One     *)
(* submission of the finder-names modal of a guild whose names row exists  *)
(* (the command that opens the modal reads the templates from it).  A      *)
(* template is a sequence of symbols: "{{" and "}}" for the two double      *)
(* braces, "n" for the text bullet_name and "f" for the text               *)
(* bullet_finder.                                                          *)

TemplateAlphabet == {"{{", "}}", "n", "f"}

Templates == UNION {[1..k -> TemplateAlphabet] : k \in 0..MaxTemplateLen}

\* the templates a names row starts with: the name placeholder alone, the
\* finder placeholder alone, a text without braces
StockTemplates == {<<"{{", "n", "}}">>, <<"{{", "f", "}}">>,
                   <<"n">>}

Fields == {"singular_truth_bullet_finder", "plural_truth_bullet_finder",
           "best_bullet_finder"}

\* the three text inputs of a submission: template t in field f, the other
\* two fields as in st
Submission(f, t, st) == [h \in Fields |-> IF h = f THEN t ELSE st[h]]

NoMatch == [matched |-> FALSE, group2 |-> <<>>]

\* TEMPLATE_MARKDOWN.search(value) with TEMPLATE_MARKDOWN = ({{(.*)}}): the
\* match starts at the leftmost {{ that has a }} behind it and, .* being
\* greedy, ends at the last }} of the string; group(2) is what lies between.
TEMPLATE_MARKDOWN_search(value) ==
    LET opens == {i \in 1..Len(value) :
                     /\ value[i] = "{{"
                     /\ \E j \in (i + 1)..Len(value) : value[j] = "}}"}
    IN  IF opens = {} THEN NoMatch
        ELSE LET i == CHOOSE a \in opens : \A b \in opens : a <= b
                 closes == {j \in (i + 1)..Len(value) : value[j] = "}}"}
                 j == CHOOSE a \in closes : \A b \in closes : a >= b
             IN  [matched |-> TRUE, group2 |-> SubSeq(value, i + 1, j - 1)]

\* (var_name := TEMPLATE_MARKDOWN.search(value)) and var_name.group(2) != name
invalid_variable(value, name) ==
    LET var_name == TEMPLATE_MARKDOWN_search(value)
    IN  var_name.matched /\ var_name.group2 # <<name>>

\* the three checks of bullet_finders_edit, any of which raises BadArgument
raises_BadArgument(kw) ==
    \/ invalid_variable(kw["singular_truth_bullet_finder"], "n")
    \/ invalid_variable(kw["plural_truth_bullet_finder"], "n")
    \/ invalid_variable(kw["best_bullet_finder"], "f")

InitTemplates ==
    /\ ParkFind /\ ParkClue /\ ParkBal /\ ParkCfg /\ ParkItem
    /\ ParkSet /\ ParkAlias
    /\ names_row = [f \in Fields |->
                       IF f = "best_bullet_finder"
                       THEN <<"{{", "f", "}}">>
                       ELSE <<"{{", "n", "}}">>]
    /\ kwargs = [f \in Fields |-> <<>>]
    /\ tpc = "open"

\* the modal is submitted: the callback starts and fetch_config returns
FindersSubmit ==
    /\ tpc = "open"
    /\ \E f \in Fields, t \in Templates, st \in [Fields -> StockTemplates] :
          kwargs' = Submission(f, t, st)
    /\ tpc' = "fetched"
    /\ UNCHANGED names_row
    /\ UNCHANGED notTmpl

\* the rest of bullet_finders_edit: the three checks, then the three
\* assignments and names.save()
FindersEdit ==
    /\ tpc = "fetched"
    /\ IF raises_BadArgument(kwargs)
       THEN /\ tpc' = "raised"
            /\ UNCHANGED names_row
       ELSE /\ names_row' = kwargs
            /\ tpc' = "saved"
    /\ UNCHANGED kwargs
    /\ UNCHANGED notTmpl

NextTemplates ==
    \/ FindersSubmit
    \/ FindersEdit

SpecTemplates == InitTemplates /\ [][NextTemplates]_vars

\* the placeholders of a template: what stands between a {{ and a }} and
\* holds no brace itself
Placeholders(value) ==
    {SubSeq(value, i + 1, j - 1) :
        <<i, j>> \in {<<a, b>> \in (1..Len(value)) \X (1..Len(value)) :
                        /\ b > a
                        /\ value[a] = "{{" /\ value[b] = "}}"
                        /\ \A k \in (a + 1)..(b - 1) :
                              value[k] \notin {"{{", "}}"}}}

\* the template holds a placeholder other than the one allowed
Foreign(value, name) == \E w \in Placeholders(value) : w # <<name>>

\* the submission breaks the whitelist of one of its fields
OffWhitelist(kw) ==
    \/ Foreign(kw["singular_truth_bullet_finder"], "n")
    \/ Foreign(kw["plural_truth_bullet_finder"], "n")
    \/ Foreign(kw["best_bullet_finder"], "f")

Handled == tpc \in {"saved", "raised"}

\* a submission that breaks the whitelist is rejected, and a rejected
\* submission changes none of the three stored templates
OffWhitelistRejected ==
    /\ (Handled /\ OffWhitelist(kwargs)) => tpc = "raised"
    /\ tpc = "raised" =>
          names_row = [f \in Fields |->
                          IF f = "best_bullet_finder"
                          THEN <<"{{", "f", "}}">>
                          ELSE <<"{{", "n", "}}">>]

\* every other submission is stored as submitted
OnWhitelistStored ==
    (Handled /\ ~OffWhitelist(kwargs)) =>
        (tpc = "saved" /\ names_row = kwargs)

\* C30: a bullet_finders submission whose singular or plural template holds
\* a placeholder other than bullet_name, or whose best-finder template holds
\* one other than bullet_finder, is rejected and none of the three stored
\* templates changes; every other submission is stored as submitted.
C30_TemplateWhitelist ==
    OffWhitelistRejected /\ OnWhitelistStored

-----------------------------------------------------------------------------
(* SpecAliases: src/common/models.py, TruthBullet.aliases.  A list of      *)
(* aliases is loaded into a TruthBullet (the field validator), dumped (the *)
(* field serializer, which save() sends to the table), loaded again from   *)
(* the saved column and dumped again.                                      *)

\* the aliases drawn: the one-character strings and two longer ones
AliasWords == AliasPool \cup {<<"a", "A">>, <<"A", "a">>}

AliasLists == UNION {[1..k -> AliasWords] : k \in 0..MaxAliases}

\* the code point of a character
Ord(c) ==
    IF c = "%" THEN 37 ELSE IF c = "A" THEN 65 ELSE IF c = "\\" THEN 92
    ELSE IF c = "_" THEN 95 ELSE 97

\* s < t for Python strings: by code point at the first difference, a
\* proper prefix first
RECURSIVE StrLess(_, _)
StrLess(s, t) ==
    IF t = <<>> THEN FALSE
    ELSE IF s = <<>> THEN TRUE
    ELSE IF Head(s) = Head(t) THEN StrLess(Tail(s), Tail(t))
    ELSE Ord(Head(s)) < Ord(Head(t))

\* sorted() with the order turned round
RECURSIVE sorted_Descending(_)
sorted_Descending(value) ==
    IF value = {} THEN <<>>
    ELSE LET m == CHOOSE x \in value : \A y \in value \ {x} : StrLess(y, x)
         IN  <<m>> \o sorted_Descending(value \ {m})

\* sorted(value) of a set of strings
RECURSIVE sorted(_)
sorted(value) ==
    IF value = {} THEN <<>>
    ELSE LET m == CHOOSE x \in value : \A y \in value \ {x} : StrLess(x, y)
         IN  <<m>> \o sorted(value \ {m})

\* _transform_aliases_into_set: set(value)
transform_aliases_into_set(value) == {value[i] : i \in 1..Len(value)}

\* _transform_aliases_into_list: sorted(value)
transform_aliases_into_list(value) == sorted(value)

InitAliases ==
    /\ ParkFind /\ ParkClue /\ ParkBal /\ ParkCfg /\ ParkItem /\ ParkTmpl
    /\ ParkSet
    /\ a_in \in AliasLists
    /\ a_set = {} /\ a_out = <<>> /\ a_saved = <<>>
    /\ a_pc = "stored"

\* the row is loaded: the validator runs on the column
AliasLoad ==
    /\ a_pc = "stored"
    /\ a_set' = transform_aliases_into_set(a_in)
    /\ a_pc' = "loaded"
    /\ UNCHANGED <<a_in, a_out, a_saved>>
    /\ UNCHANGED notAlias

\* TruthBullet.save: model_dump() runs the serializer and update() writes
\* the list
AliasSave ==
    /\ a_pc = "loaded"
    /\ a_out' = transform_aliases_into_list(a_set)
    /\ a_saved' = a_out'
    /\ a_pc' = "dumped"
    /\ UNCHANGED <<a_in, a_set>>
    /\ UNCHANGED notAlias

\* the saved row is loaded again
AliasReload ==
    /\ a_pc = "dumped"
    /\ a_set' = transform_aliases_into_set(a_saved)
    /\ a_pc' = "reloaded"
    /\ UNCHANGED <<a_in, a_out, a_saved>>
    /\ UNCHANGED notAlias

\* and dumped again
AliasRedump ==
    /\ a_pc = "reloaded"
    /\ a_out' = transform_aliases_into_list(a_set)
    /\ a_pc' = "redumped"
    /\ UNCHANGED <<a_in, a_set, a_saved>>
    /\ UNCHANGED notAlias

NextAliases ==
    \/ AliasLoad
    \/ AliasSave
    \/ AliasReload
    \/ AliasRedump

SpecAliases == InitAliases /\ [][NextAliases]_vars

\* the sequence holds its strings in strictly ascending order
Ascending(seq) ==
    \A i \in 1..(Len(seq) - 1) : StrLess(seq[i], seq[i + 1])

Elements(seq) == {seq[i] : i \in 1..Len(seq)}

\* C32: loading a list of aliases and serializing it gives the distinct
\* aliases of the list in ascending order; loading and serializing that
\* result again gives the same sequence; what save stores has no duplicates.
C32_AliasesSortedSet ==
    /\ a_pc \in {"dumped", "reloaded", "redumped"} =>
          /\ Elements(a_saved) = Elements(a_in)
          /\ Ascending(a_saved)
          /\ Len(a_saved) = Cardinality(Elements(a_in))
    /\ a_pc = "dumped" => a_out = a_saved
    /\ a_pc = "redumped" => a_out = a_saved

\* C32 witness: a list of three aliases with a duplicate and out of order
\* went through both rounds and two aliases are stored.
C32_Witness ==
    /\ a_pc = "redumped"
    /\ Len(a_in) = 3 /\ a_in[1] = a_in[3] /\ StrLess(a_in[2], a_in[1])
    /\ Len(a_in[1]) = 2
    /\ Len(a_out) = 2

-----------------------------------------------------------------------------
(* SpecSettings: src/exts/bullet_config.py, the clue-settings commands     *)
(* (channel, best-finder, mode, toggle) of a guild whose clue-settings row *)
(* exists, run by NumSetters handlers at once.  A handler gives way at     *)
(* each await: after it read the record, and after its save returned.      *)

Setters == 1..NumSetters

InvestigationTypes == {"DEFAULT", "COMMAND_ONLY"}

BulletConfigs ==
    [bullets_enabled : BOOLEAN, investigation_type : InvestigationTypes,
     bullet_chan_id : {NULL, "chan"}, best_bullet_finder_role : {NULL, "best"}]

\* the record of a handler that holds none
NoBulletConfig ==
    [bullets_enabled |-> FALSE, investigation_type |-> "DEFAULT",
     bullet_chan_id |-> NULL, best_bullet_finder_role |-> NULL]

NewSetter ==
    [pc |-> "new", kind |-> NULL, arg |-> NULL, guild |-> NULL,
     bullet_config |-> NoBulletConfig, player_role |-> NULL]

\* the arguments of each command
SetterArgs(kind) ==
    IF kind = "channel" THEN {NULL, "chan"}
    ELSE IF kind = "best-finder" THEN {NULL, "best"}
    ELSE IF kind = "mode" THEN InvestigationTypes
    ELSE BOOLEAN

\* start() in src/main.py: the guilds find_many gives for bullets_enabled
\* and investigation_type not COMMAND_ONLY
start_find_many(table) ==
    {g \in DOMAIN table :
        /\ table[g].bullets_enabled
        /\ table[g].investigation_type # "COMMAND_ONLY"}

\* enable_check without the test of the investigation channel
enable_check_RoleOnly(config_player_role, config_bullets) ==
    config_player_role = NULL

\* enable_check: TRUE when it raises CustomCheckFailure (the player role is
\* unset, or the investigation channel is)
enable_check(config_player_role, config_bullets) ==
    \/ config_player_role = NULL
    \/ config_bullets.bullet_chan_id = NULL

\* BulletConfig.save: update(where guild_id, data=model_dump(exclude=
\* {"main_config"})): every column of the row is written from the record
BulletConfig_save(table, guild_id, self) ==
    [table EXCEPT ![guild_id] = self]

InitSettings ==
    /\ ParkFind /\ ParkClue /\ ParkBal /\ ParkCfg /\ ParkItem /\ ParkTmpl
    /\ ParkAlias
    /\ bulletconfig \in [Guilds -> BulletConfigs]
    /\ cfg_player_role \in [Guilds -> {NULL, "role"}]
    /\ \A g \in Guilds :
          bulletconfig[g].bullets_enabled =>
              (cfg_player_role[g] # NULL /\ bulletconfig[g].bullet_chan_id # NULL)
    /\ msg_enabled_bullets_guilds = start_find_many(bulletconfig)
    /\ setter = [c \in Setters |-> NewSetter]

\* BulletConfig.get_or_create (channel, best-finder, mode) or
\* fetch_config({"bullets": True}) (toggle): the handler holds the row as it
\* is now
SettingsLoad(c, kind, arg, g) ==
    /\ setter[c].pc = "new"
    /\ setter' = [setter EXCEPT ![c] =
          [pc |-> "loaded", kind |-> kind, arg |-> arg, guild |-> g,
           bullet_config |-> bulletconfig[g],
           player_role |-> IF kind = "toggle" THEN cfg_player_role[g]
                           ELSE NULL]]
    /\ UNCHANGED <<bulletconfig, cfg_player_role, msg_enabled_bullets_guilds>>
    /\ UNCHANGED notSet

\* set_bullet_channel: bullet_chan_id is assigned and the record saved
SetChannelSave(c) ==
    /\ setter[c].pc = "loaded" /\ setter[c].kind = "channel"
    /\ LET self == [setter[c].bullet_config EXCEPT
                       !.bullet_chan_id = setter[c].arg]
       IN  /\ bulletconfig' = BulletConfig_save(bulletconfig, setter[c].guild,
                                                self)
           /\ setter' = [setter EXCEPT ![c].pc = "done",
                                       ![c].bullet_config = NoBulletConfig]
    /\ UNCHANGED <<cfg_player_role, msg_enabled_bullets_guilds>>
    /\ UNCHANGED notSet

\* set_best_truth_bullet_finder_role
SetBestSave(c) ==
    /\ setter[c].pc = "loaded" /\ setter[c].kind = "best-finder"
    /\ LET self == [setter[c].bullet_config EXCEPT
                       !.best_bullet_finder_role = setter[c].arg]
       IN  /\ bulletconfig' = BulletConfig_save(bulletconfig, setter[c].guild,
                                                self)
           /\ setter' = [setter EXCEPT ![c].pc = "done",
                                       ![c].bullet_config = NoBulletConfig]
    /\ UNCHANGED <<cfg_player_role, msg_enabled_bullets_guilds>>
    /\ UNCHANGED notSet

\* set_investigation_mode up to the end of its save
SetModeSave(c) ==
    /\ setter[c].pc = "loaded" /\ setter[c].kind = "mode"
    /\ LET self == [setter[c].bullet_config EXCEPT
                       !.investigation_type = setter[c].arg]
       IN  /\ bulletconfig' = BulletConfig_save(bulletconfig, setter[c].guild,
                                                self)
           /\ setter' = [setter EXCEPT ![c].pc = "written",
                                       ![c].bullet_config = self]
    /\ UNCHANGED <<cfg_player_role, msg_enabled_bullets_guilds>>
    /\ UNCHANGED notSet

\* set_investigation_mode after its save: discard for COMMAND_ONLY, add when
\* the record says bullets_enabled
SetModeMem(c) ==
    /\ setter[c].pc = "written" /\ setter[c].kind = "mode"
    /\ msg_enabled_bullets_guilds' =
          IF setter[c].bullet_config.investigation_type = "COMMAND_ONLY"
          THEN msg_enabled_bullets_guilds \ {setter[c].guild}
          ELSE IF setter[c].bullet_config.bullets_enabled
          THEN msg_enabled_bullets_guilds \cup {setter[c].guild}
          ELSE msg_enabled_bullets_guilds
    /\ setter' = [setter EXCEPT ![c].pc = "done",
                                ![c].bullet_config = NoBulletConfig]
    /\ UNCHANGED <<bulletconfig, cfg_player_role>>
    /\ UNCHANGED notSet

\* toggle_bullets up to the end of its save: enable_check when the record
\* says off and the command turns on, then the assignment and the save
ToggleSave(c) ==
    /\ setter[c].pc = "loaded" /\ setter[c].kind = "toggle"
    /\ IF /\ ~setter[c].bullet_config.bullets_enabled /\ setter[c].arg
          /\ enable_check(setter[c].player_role, setter[c].bullet_config)
       THEN /\ setter' = [setter EXCEPT ![c].pc = "raised",
                                        ![c].bullet_config = NoBulletConfig]
            /\ UNCHANGED bulletconfig
       ELSE LET self == [setter[c].bullet_config EXCEPT
                            !.bullets_enabled = setter[c].arg]
            IN  /\ bulletconfig' =
                      BulletConfig_save(bulletconfig, setter[c].guild, self)
                /\ setter' = [setter EXCEPT ![c].pc = "written",
                                            ![c].bullet_config = self]
    /\ UNCHANGED <<cfg_player_role, msg_enabled_bullets_guilds>>
    /\ UNCHANGED notSet

\* toggle_bullets after its save: add or discard unless the record's mode
\* is COMMAND_ONLY
ToggleMem(c) ==
    /\ setter[c].pc = "written" /\ setter[c].kind = "toggle"
    /\ msg_enabled_bullets_guilds' =
          IF setter[c].bullet_config.investigation_type # "COMMAND_ONLY"
          THEN IF setter[c].arg
               THEN msg_enabled_bullets_guilds \cup {setter[c].guild}
               ELSE msg_enabled_bullets_guilds \ {setter[c].guild}
          ELSE msg_enabled_bullets_guilds
    /\ setter' = [setter EXCEPT ![c].pc = "done",
                                ![c].bullet_config = NoBulletConfig]
    /\ UNCHANGED <<bulletconfig, cfg_player_role>>
    /\ UNCHANGED notSet

NextSettings ==
    \/ \E c \in Setters, g \in Guilds :
          \E kind \in {"channel", "best-finder", "mode", "toggle"} :
             \E arg \in SetterArgs(kind) : SettingsLoad(c, kind, arg, g)
    \/ \E c \in Setters : SetChannelSave(c)
    \/ \E c \in Setters : SetBestSave(c)
    \/ \E c \in Setters : SetModeSave(c)
    \/ \E c \in Setters : SetModeMem(c)
    \/ \E c \in Setters : ToggleSave(c)
    \/ \E c \in Setters : ToggleMem(c)

SpecSettings == InitSettings /\ [][NextSettings]_vars

\* no clue-settings command is in progress
Quiet == \A c \in Setters : setter[c].pc \in {"new", "done", "raised"}

\* C33: whenever no clue-settings command is in progress, a community is in
\* msg_enabled_bullets_guilds exactly when its stored clue settings have
\* bullets_enabled true and an investigation_type other than COMMAND_ONLY.
C33_MsgEnabledMirrorsStorage ==
    Quiet => msg_enabled_bullets_guilds = start_find_many(bulletconfig)

\* the column a command names
ColumnOf(kind) ==
    IF kind = "channel" THEN "bullet_chan_id"
    ELSE IF kind = "best-finder" THEN "best_bullet_finder_role"
    ELSE IF kind = "mode" THEN "investigation_type"
    ELSE "bullets_enabled"

\* C34: when two clue-settings commands that set different fields of one
\* community's settings have both completed, both fields hold the values
\* the commands set.
C34_SettingsOnlyOwnField ==
    \A c, d \in Setters :
        (/\ c # d
         /\ setter[c].pc = "done" /\ setter[d].pc = "done"
         /\ setter[c].guild = setter[d].guild
         /\ setter[c].kind # setter[d].kind) =>
            /\ bulletconfig[setter[c].guild][ColumnOf(setter[c].kind)]
                  = setter[c].arg
            /\ bulletconfig[setter[d].guild][ColumnOf(setter[d].kind)]
                  = setter[d].arg

\* the step of handler c is the check-and-save step of a toggle command
IsToggleStep(c) ==
    /\ setter[c].pc = "loaded" /\ setter[c].kind = "toggle"
    /\ setter'[c].pc # "loaded"

C36_EnabledHasRoleAndChannel ==
    \A g \in Guilds :
        bulletconfig[g].bullets_enabled =>
            (cfg_player_role[g] # NULL /\ bulletconfig[g].bullet_chan_id # NULL)

-----------------------------------------------------------------------------
(* SpecEdit: src/exts/gacha_management.py, on_modal_edit_gacha_item as the *)
(* listener it is: any modal completion whose custom_id starts with        *)
(* edit_gacha_item- is handled, with the item id read from the custom_id   *)
(* and the community from the interaction.  The catalog is drawn.          *)

\* the rows an item id may hold before the submissions
DrawnItems ==
    {NoItem} \cup
    {[present |-> TRUE, guild_id |-> g, name |-> n, description |-> "d",
      amount |-> -1, image |-> NULL] : g \in ItemGuilds, n \in ItemNames}

InitEdit ==
    /\ ParkFind /\ ParkClue /\ ParkBal /\ ParkCfg /\ ParkTmpl
    /\ ParkSet /\ ParkAlias
    /\ items \in [ItemIds -> DrawnItems]
    /\ next_id = MaxItems + 1
    /\ icmd = [s \in ICmds |-> NewICmd]

\* on_modal_edit_gacha_item up to its update, for a completion of guild g
\* whose custom_id is edit_gacha_item-<item_id>: the id is counted
\* (BadArgument when there is no such row), then the amount is parsed.
EditSubmit(s, g, item_id, name, description, item_amount) ==
    /\ Free(s)
    /\ LET rec == [NewICmd EXCEPT !.kind = "edit", !.guild = g,
                                  !.id = item_id, !.name = name,
                                  !.description = description,
                                  !.item_amount = item_amount]
       IN  icmd' = [icmd EXCEPT ![s] =
               IF ~items[item_id].present
               THEN [rec EXCEPT !.state = "failed", !.error = "gone"]
               ELSE IF ~valid_amount(str_amount(item_amount)).ok
               THEN [rec EXCEPT !.state = "failed", !.error = "amount"]
               ELSE [rec EXCEPT !.state = "edit_checked"]]
    /\ UNCHANGED <<items, next_id>>
    /\ UNCHANGED notItem

NextEdit ==
    \/ \E s \in ICmds, g \in ItemGuilds, item_id \in ItemIds,
          name \in ItemNames, description \in ItemDescriptions,
          item_amount \in AmountTexts \cup {Absent} :
          EditSubmit(s, g, item_id, name, description, item_amount)
    \/ \E s \in ICmds : EditWrite(s)

SpecEdit == InitEdit /\ [][NextEdit]_vars

\* C37: an item-edit submission made in one community leaves every item of
\* another community unchanged, whatever item id it submits.
C37_EditOnlyOwnCommunity ==
    [][\A s \in ICmds :
          IsEditWrite(s) =>
              \A id \in ItemIds :
                  (items[id].present /\ items[id].guild_id # icmd[s].guild) =>
                      items'[id] = items[id]]_vars

-----------------------------------------------------------------------------
(* The four currency commands together: give, remove, reset-currency and   *)
(* give-all, each a role check followed by its database write.             *)

NextCurrency ==
    \/ \E c \in Cmds, kind \in {"give", "remove"}, user \in Users,
          amount \in Amounts, has_role \in BOOLEAN :
          CurrencyCheck(c, kind, user, amount, has_role)
    \/ \E c \in Cmds, user \in Users, has_role \in BOOLEAN :
          CurrencyCheck(c, "reset", user, 0, has_role)
    \/ \E c \in Cmds, amount \in Amounts, role_found \in BOOLEAN :
          GiveAllCheck(c, amount, role_found)
    \/ \E c \in Cmds : GachaGive(c)
    \/ \E c \in Cmds : GachaRemove(c)
    \/ \E c \in Cmds : GachaReset(c)
    \/ \E c \in Cmds, members \in SUBSET Users, ok \in BOOLEAN :
          GachaGiveAll(c, members, ok)

SpecCurrency == InitLedger /\ [][NextCurrency]_vars

-----------------------------------------------------------------------------
(* Claims about the role checks, checked under SpecCurrency.               *)

\* a step in which command c runs its role checks
IsRoleCheck(c) == cmd[c].state = "new" /\ cmd'[c].state # "new"

\* the case of the claim: no player role is configured, or the target user
\* lacks it (give, remove, reset-currency), or the role cannot be found
\* (give-all)
RoleCheckFails(c) == player_role = NULL \/ ~cmd'[c].has_role

\* C38: give, remove and reset-currency fail when no player role is
\* configured or the target user does not hold it; give-all fails when no
\* player role is configured or the role cannot be found.  On each such
\* failure no balance row is created or changed: the failing step leaves
\* the table alone and the failed command takes no further step.
C38_RoleChecksBeforeWrites ==
    [][\A c \in Cmds :
          /\ (IsRoleCheck(c) /\ RoleCheckFails(c))
                => (cmd'[c].state = "failed" /\ players' = players)
          /\ cmd[c].state = "failed" => cmd'[c] = cmd[c]]_vars

\* a remove on a user without the role has failed, and so has a give-all
\* whose role could not be found, and no row differs from the start
C38_Witness ==
    /\ player_role # NULL
    /\ \E c, d \in Cmds :
          /\ cmd[c].state = "failed" /\ cmd[c].kind = "remove"
          /\ ~cmd[c].has_role
          /\ cmd[d].state = "failed" /\ cmd[d].kind = "give_all"
          /\ ~cmd[d].has_role
    /\ players = players0

=============================================================================
